---- MODULE Spec2Model ----
(***************************************************************************)
(* The server-actions transform of                                         *)
(* packages/next-swc/crates/core/src/server_actions.rs as a state machine. *)
(*                                                                         *)
(* A module is a sequence of module items; every AST node is a record with *)
(* a "type" field named after the swc node it stands for.  The visitor     *)
(* ServerActions is the record `self` (one field per field of the struct,  *)
(* plus the diagnostics sink HANDLER and the comment store); every         *)
(* visit_mut_* method is an operator that takes the struct and a node and  *)
(* returns both as changed by the method.  The steps of the machine are    *)
(* the steps of visit_mut_module_items: directive detection, one pre-pass  *)
(* iteration, one main-loop iteration, and the epilogue.                   *)
(***************************************************************************)
EXTENDS Integers, Sequences, FiniteSets, TLC

VARIABLES
    input,      \* the module body as parsed, before the transform
    stmts,      \* the Vec<ModuleItem> visit_mut_module_items works on
    new,        \* the local `new` of visit_mut_module_items
    old_annotations, \* the local `old_annotations` of visit_mut_module_items
    self,       \* the ServerActions struct
    pc,         \* position in visit_mut_module or visit_mut_module_items
    i,          \* index of the loop iteration to run next
    emitted     \* history: what each iteration of the main loop pushed to `new`

vars == <<input, stmts, new, old_annotations, self, pc, i, emitted>>

-----------------------------------------------------------------------------
(* Bounds of the model *)

\* longest module body (items after the directive prologue)
MaxItems == 2

-----------------------------------------------------------------------------
(* Spans, identifiers *)

\* DUMMY_SP
DUMMY_SP == 0

\* SyntaxContext::empty(): the context of quote_ident! and Ident::new(_, DUMMY_SP)
EmptyCtxt == 0

\* the context of an identifier made by private_ident!
PrivateCtxt == 99

\* Ident::to_id: (sym, ctxt)
Id(sym, ctxt) == <<sym, ctxt>>

Sym(id) == id[1]

None == [type |-> "None"]

IsSome(x) == x.type # "None"

-----------------------------------------------------------------------------
(* AST nodes (swc_ecma_ast), one constructor per node type that is used *)

Ident(id) == [type |-> "Ident", id |-> id]

\* MemberExpr with MemberProp::Ident
Member(obj, prop) == [type |-> "Member", obj |-> obj, prop |-> prop]

\* OptChainExpr with OptChainBase::Member and MemberProp::Ident
OptChain(obj, prop) == [type |-> "OptChain", obj |-> obj, prop |-> prop]

\* MemberExpr with MemberProp::Computed
MemberComputed(obj, index) == [type |-> "MemberComputed", obj |-> obj, index |-> index]

Str(value) == [type |-> "Str", value |-> value]

Num(value) == [type |-> "Num", value |-> value]

Bin(left, right) == [type |-> "Bin", left |-> left, right |-> right]

Call(callee, args) == [type |-> "Call", callee |-> callee, args |-> args]

ArrayLit(elems) == [type |-> "Array", elems |-> elems]

\* ObjectLit; props are Shorthand or KeyValue
ObjectLit(props) == [type |-> "Object", props |-> props]

Shorthand(id) == [type |-> "Shorthand", id |-> id]

KeyValue(key, value) == [type |-> "KeyValue", key |-> key, value |-> value]

\* AssignExpr; left is a PatOrExpr
Assign(left, right) == [type |-> "Assign", left |-> left, right |-> right]

ClassExpr(ident) == [type |-> "Class", ident |-> ident]

\* Pat::Ident
PatIdent(id) == [type |-> "PatIdent", id |-> id]

\* Pat::Assign: a pattern with a default value
PatAssign(left, right) == [type |-> "PatAssign", left |-> left, right |-> right]

\* Pat::Rest
PatRest(arg) == [type |-> "PatRest", arg |-> arg]

\* Pat::Array
PatArray(elems) == [type |-> "PatArray", elems |-> elems]

Param(pat) == [type |-> "Param", pat |-> pat]

BlockStmt(ss) == [type |-> "BlockStmt", stmts |-> ss]

\* Function; body is the Option<BlockStmt>
Function(params, body, is_async) ==
    [type |-> "Function", params |-> params, body |-> body, is_async |-> is_async]

\* FnExpr; ident is None or an identifier
FnExpr(ident, function) == [type |-> "Fn", ident |-> ident, function |-> function]

\* ArrowExpr; params are Pats, body is a BlockStmt or an expression
Arrow(span, params, body, is_async) ==
    [type |-> "Arrow", span |-> span, params |-> params, body |-> body,
     is_async |-> is_async]

ExprStmt(expr) == [type |-> "ExprStmt", expr |-> expr]

ReturnStmt(arg) == [type |-> "Return", arg |-> arg]

\* Decl::Fn
FnDecl(ident, function) == [type |-> "FnDecl", ident |-> ident, function |-> function]

VarDeclarator(name, init) == [type |-> "VarDeclarator", name |-> name, init |-> init]

\* Decl::Var
VarDecl(kind, decls) == [type |-> "VarDecl", kind |-> kind, decls |-> decls]

\* Decl::Class
ClassDecl(ident) == [type |-> "ClassDecl", ident |-> ident]

\* ModuleItem::Stmt
StmtItem(stmt) == [type |-> "Stmt", stmt |-> stmt]

\* ModuleDecl::ExportDecl
ExportDecl(span, decl) == [type |-> "ExportDecl", span |-> span, decl |-> decl]

\* ExportSpecifier::Named with orig: ModuleExportName::Ident
ExportNamedSpecifier(orig) == [type |-> "NamedSpecifier", orig |-> orig]

\* ExportSpecifier::Namespace (export * as ns from "m")
ExportNamespaceSpecifier(name) == [type |-> "NamespaceSpecifier", name |-> name]

\* ModuleDecl::ExportNamed; src is None or the Str of the source module
NamedExport(span, specifiers, src) ==
    [type |-> "ExportNamed", span |-> span, specifiers |-> specifiers, src |-> src]

\* ModuleDecl::ExportDefaultDecl; decl is a FnExpr (DefaultDecl::Fn) or a class
ExportDefaultDecl(span, decl) == [type |-> "ExportDefaultDecl", span |-> span, decl |-> decl]

\* ModuleDecl::ExportDefaultExpr
ExportDefaultExpr(span, expr) == [type |-> "ExportDefaultExpr", span |-> span, expr |-> expr]

\* ModuleDecl::ExportAll
ExportAll(span, src) == [type |-> "ExportAll", span |-> span, src |-> src]

-----------------------------------------------------------------------------
(* Directive detection *)

RECURSIVE StrictScan(_, _)
\* a variant of the scan that gives up at the first statement that is not the
\* "use server" literal
StrictScan(ss, k) ==
    IF k > Len(ss) THEN -1
    ELSE IF ss[k].type = "ExprStmt" /\ ss[k].expr.type = "Str"
            /\ ss[k].expr.value = "use server"
         THEN k - 1
         ELSE -1

RECURSIVE DirectiveScan(_, _)
\* the loop shared by both directive scans, from statement k on: a string
\* literal other than "use server" is passed over, anything else ends the scan
DirectiveScan(ss, k) ==
    IF k > Len(ss) THEN -1
    ELSE IF ss[k].type = "ExprStmt"
         THEN IF ss[k].expr.type = "Str"
              THEN IF ss[k].expr.value = "use server" THEN k - 1
                   ELSE DirectiveScan(ss, k + 1)
              ELSE -1
         ELSE -1

\* get_server_directive_index_in_fn (0-based index, -1 when absent)
get_server_directive_index_in_fn(ss) == DirectiveScan(ss, 1)

\* the module items seen as statements: an item that is not ModuleItem::Stmt
\* ends the scan like a statement that is no expression statement
ItemStmt(item) == IF item.type = "Stmt" THEN item.stmt ELSE [type |-> "NotStmt"]

\* get_server_directive_index_in_module (0-based index, -1 when absent)
get_server_directive_index_in_module(items) ==
    DirectiveScan([k \in 1..Len(items) |-> ItemStmt(items[k])], 1)

\* Vec::remove(index) with a 0-based index
Remove(seq, index) ==
    [k \in 1..(Len(seq) - 1) |-> IF k <= index THEN seq[k] ELSE seq[k + 1]]

-----------------------------------------------------------------------------
(* Name: a base identifier and a chain of (property, is plain member access) *)

\* struct Name(Id, Vec<(JsWord, bool)>)
Name(id, chain) == [type |-> "Name", id |-> id, chain |-> chain]

RECURSIVE NameTryFrom(_)
\* impl TryFrom<&Expr> for Name (with the MemberExpr and OptChainExpr cases);
\* None stands for Err(())
NameTryFrom(e) ==
    CASE e.type = "Ident" -> Name(e.id, <<>>)
      [] e.type = "Member" ->
            LET obj == NameTryFrom(e.obj)
            IN  IF IsSome(obj) THEN Name(obj.id, Append(obj.chain, <<e.prop, TRUE>>))
                ELSE None
      [] e.type = "OptChain" ->
            LET obj == NameTryFrom(e.obj)
            IN  IF IsSome(obj) THEN Name(obj.id, Append(obj.chain, <<e.prop, FALSE>>))
                ELSE None
      [] OTHER -> None

RECURSIVE NameChainToExpr(_, _, _)
NameChainToExpr(expr, chain, k) ==
    IF k > Len(chain) THEN expr
    ELSE NameChainToExpr(IF chain[k][2] THEN Member(expr, chain[k][1])
                         ELSE OptChain(expr, chain[k][1]), chain, k + 1)

\* impl From<Name> for Expr
NameToExpr(name) == NameChainToExpr(Ident(name.id), name.chain, 1)

\* position of the first element of seq equal to x (0-based), -1 for None
Position(seq, x) ==
    IF \E k \in 1..Len(seq) : seq[k] = x
    THEN (CHOOSE k \in 1..Len(seq) : seq[k] = x /\ \A j \in 1..(k - 1) : seq[j] # x) - 1
    ELSE -1

Contains(seq, x) == \E k \in 1..Len(seq) : seq[k] = x

RECURSIVE Retain(_, _)
\* Vec::retain: the elements of names whose base identifier is in idents, in order
Retain(names, idents) ==
    IF names = <<>> THEN <<>>
    ELSE (IF Contains(idents, Head(names).id) THEN <<Head(names)>> ELSE <<>>)
         \o Retain(Tail(names), idents)

RECURSIVE Flatten(_)
\* concatenation of a sequence of sequences
Flatten(seqs) == IF seqs = <<>> THEN <<>> ELSE Head(seqs) \o Flatten(Tail(seqs))

-----------------------------------------------------------------------------
(* Identifier collection *)

RECURSIVE collect_idents_in_array_pat(_)
\* collect_idents_in_array_pat (object patterns are not part of the model)
collect_idents_in_array_pat(elems) ==
    Flatten([k \in 1..Len(elems) |->
        CASE elems[k].type = "PatIdent" -> <<elems[k].id>>
          [] elems[k].type = "PatArray" -> collect_idents_in_array_pat(elems[k].elems)
          [] elems[k].type = "PatRest" ->
                IF elems[k].arg.type = "PatIdent" THEN <<elems[k].arg.id>> ELSE <<>>
          [] OTHER -> <<>>])

\* collect_idents_in_var_decls
collect_idents_in_var_decls(decls) ==
    Flatten([k \in 1..Len(decls) |->
        CASE decls[k].name.type = "PatIdent" -> <<decls[k].name.id>>
          [] decls[k].name.type = "PatArray" ->
                collect_idents_in_array_pat(decls[k].name.elems)
          [] OTHER -> <<>>])

\* collect_idents_in_stmt
collect_idents_in_stmt(stmt) ==
    IF stmt.type = "VarDecl" THEN collect_idents_in_var_decls(stmt.decls) ELSE <<>>

-----------------------------------------------------------------------------
(* ClosureReplacer *)

\* closure_arg[index]: the expression a captured reference is replaced by
ClosureIndexed(closure_arg, index) == MemberComputed(Ident(closure_arg), Num(index))

\* ClosureReplacer::index_of_id
index_of_id(used_ids, id) == Position(used_ids, Name(id, <<>>))

\* a variant of ClosureReplacer::index that compares the symbols of the base
\* identifiers and leaves their syntax contexts out
IndexBySym(used_ids, e) ==
    LET name == NameTryFrom(e)
        bySym == [k \in 1..Len(used_ids) |->
                     Name(Id(Sym(used_ids[k].id), EmptyCtxt), used_ids[k].chain)]
    IN  IF IsSome(name)
        THEN Position(bySym, Name(Id(Sym(name.id), EmptyCtxt), name.chain))
        ELSE -1

\* ClosureReplacer::index
index(used_ids, e) ==
    LET name == NameTryFrom(e) IN IF IsSome(name) THEN Position(used_ids, name) ELSE -1

RECURSIVE ClosureReplacer(_, _, _)
\* the ClosureReplacer visitor applied to any node n: visit_mut_expr on an
\* expression, visit_mut_prop on an object property, and the derived traversal
\* (visit_mut_children_with) on every other node
ClosureReplacer(closure_arg, used_ids, n) ==
    LET V(c) == ClosureReplacer(closure_arg, used_ids, c)
        VS(cs) == [k \in 1..Len(cs) |-> ClosureReplacer(closure_arg, used_ids, cs[k])]
        \* visit_mut_expr: children first, then the expression itself
        E(children) ==
            IF index(used_ids, children) >= 0
            THEN ClosureIndexed(closure_arg, index(used_ids, children))
            ELSE children
    IN  CASE n.type \in {"Ident", "Str", "Num", "Class"} -> E(n)
          [] n.type \in {"Member", "OptChain"} -> E([n EXCEPT !.obj = V(n.obj)])
          [] n.type = "MemberComputed" ->
                E([n EXCEPT !.obj = V(n.obj), !.index = V(n.index)])
          [] n.type = "Bin" -> E([n EXCEPT !.left = V(n.left), !.right = V(n.right)])
          [] n.type = "Assign" -> E([n EXCEPT !.left = V(n.left), !.right = V(n.right)])
          [] n.type = "Call" -> E([n EXCEPT !.callee = V(n.callee), !.args = VS(n.args)])
          [] n.type = "Array" -> E([n EXCEPT !.elems = VS(n.elems)])
          [] n.type = "Object" -> E([n EXCEPT !.props = VS(n.props)])
          [] n.type = "Fn" -> E([n EXCEPT !.function = V(n.function)])
          [] n.type = "Arrow" -> E([n EXCEPT !.params = VS(n.params), !.body = V(n.body)])
          \* visit_mut_prop
          [] n.type = "Shorthand" ->
                IF index_of_id(used_ids, n.id) >= 0
                THEN KeyValue(n.id, ClosureIndexed(closure_arg, index_of_id(used_ids, n.id)))
                ELSE n
          [] n.type = "KeyValue" -> [n EXCEPT !.value = V(n.value)]
          \* patterns
          [] n.type = "PatAssign" -> [n EXCEPT !.left = V(n.left), !.right = V(n.right)]
          [] n.type = "PatRest" -> [n EXCEPT !.arg = V(n.arg)]
          [] n.type = "PatArray" -> [n EXCEPT !.elems = VS(n.elems)]
          [] n.type = "Param" -> [n EXCEPT !.pat = V(n.pat)]
          \* functions and statements
          [] n.type = "Function" -> [n EXCEPT !.params = VS(n.params), !.body = V(n.body)]
          [] n.type = "BlockStmt" -> [n EXCEPT !.stmts = VS(n.stmts)]
          [] n.type = "ExprStmt" -> [n EXCEPT !.expr = V(n.expr)]
          [] n.type = "Return" -> [n EXCEPT !.arg = V(n.arg)]
          [] n.type = "FnDecl" -> [n EXCEPT !.function = V(n.function)]
          [] n.type = "VarDecl" -> [n EXCEPT !.decls = VS(n.decls)]
          [] n.type = "VarDeclarator" -> [n EXCEPT !.name = V(n.name), !.init = V(n.init)]
          [] OTHER -> n

-----------------------------------------------------------------------------
(* The ServerActions struct and what one method hands back *)

\* server_actions(): the struct as constructed.  errors is the HANDLER sink,
\* comments the leading comments of the comment store, calls the history of
\* the calls of add_action_annotations (what each was given and what it emitted)
ServerActions(file_name) ==
    [file_name |-> file_name,
     start_pos |-> 0,
     in_action_file |-> FALSE,
     in_export_decl |-> FALSE,
     in_default_export_decl |-> FALSE,
     in_prepass |-> FALSE,
     has_action |-> FALSE,
     top_level |-> FALSE,
     in_module |-> TRUE,
     in_action_fn |-> FALSE,
     action_index |-> 0,
     should_add_name |-> FALSE,
     closure_idents |-> <<>>,
     action_idents |-> <<>>,
     async_fn_idents |-> <<>>,
     exported_idents |-> <<>>,
     action_arrow_span |-> <<>>,
     annotations |-> <<>>,
     extra_items |-> <<>>,
     export_actions |-> <<>>,
     comments |-> <<>>,
     errors |-> <<>>,
     calls |-> <<>>]

\* a method's effect: the struct and the node it was given, both as it left them
R(s, n) == [s |-> s, n |-> n]

MustBeAsync == "Server actions must be async functions"

OnlyAsyncExports ==
    "Only async functions are allowed to be exported in a \"use server\" file."

\* HANDLER.with(|handler| handler.struct_span_err(span, msg).emit()); the span
\* of an identifier is stood for by the identifier, that of an item by a number
Emit(s, span, msg) == [s EXCEPT !.errors = Append(@, [span |-> span, msg |-> msg])]

\* annotate: fn_name.field_name = value;
annotate(fn_name, field_name, value) ==
    ExprStmt(Assign(Member(fn_name, field_name), value))

\* Symbol.for('react.server.reference')
ServerReference ==
    Call(Member(Ident(Id("Symbol", EmptyCtxt)), "for"), <<Str("react.server.reference")>>)

\* hex_encode of the Sha1 digest of a byte string; the digest is a trusted
\* primitive and stands as an injective function of its input
hex_encode_sha1(bytes) == "sha1hex(" \o bytes \o ")"

-----------------------------------------------------------------------------
(* get_action_info *)

\* the first (ident, is default export) record of an identifier, 0 when none
ExportedIdent(s, id) ==
    IF \E k \in 1..Len(s.exported_idents) : s.exported_idents[k][1] = id
    THEN CHOOSE k \in 1..Len(s.exported_idents) :
            /\ s.exported_idents[k][1] = id
            /\ \A j \in 1..(k - 1) : s.exported_idents[j][1] # id
    ELSE 0

\* a variant of get_action_info that takes every exported function for an
\* action, whether the file carries the directive or not
get_action_info_any_export(s, maybe_ident, maybe_body) ==
    IF s.in_export_decl
    THEN [is_action_fn |-> TRUE,
          is_exported |-> s.in_export_decl,
          is_default_export |-> s.in_default_export_decl,
          body |-> maybe_body]
    ELSE [is_action_fn |->
              IsSome(maybe_body) /\ get_server_directive_index_in_fn(maybe_body.stmts) >= 0,
          is_exported |-> s.in_export_decl,
          is_default_export |-> s.in_default_export_decl,
          body |-> IF IsSome(maybe_body)
                      /\ get_server_directive_index_in_fn(maybe_body.stmts) >= 0
                   THEN [maybe_body EXCEPT
                           !.stmts = Remove(@, get_server_directive_index_in_fn(@))]
                   ELSE maybe_body]

\* get_action_info; body is maybe_body as the call leaves it
get_action_info(s, maybe_ident, maybe_body) ==
    IF s.in_action_file /\ s.in_export_decl
    THEN [is_action_fn |-> TRUE,
          is_exported |-> s.in_export_decl,
          is_default_export |-> s.in_default_export_decl,
          body |-> maybe_body]
    ELSE LET directive_index ==
                 IF IsSome(maybe_body)
                 THEN get_server_directive_index_in_fn(maybe_body.stmts)
                 ELSE -1
             exported_ident ==
                 IF IsSome(maybe_ident) THEN ExportedIdent(s, maybe_ident.id) ELSE 0
         IN  [is_action_fn |-> directive_index >= 0 \/ exported_ident > 0,
              is_exported |-> IF exported_ident > 0 THEN TRUE ELSE s.in_export_decl,
              is_default_export |->
                  IF exported_ident > 0 THEN s.exported_idents[exported_ident][2]
                  ELSE s.in_default_export_decl,
              body |-> IF directive_index >= 0
                       THEN [maybe_body EXCEPT !.stmts = Remove(@, directive_index)]
                       ELSE maybe_body]

-----------------------------------------------------------------------------
(* add_action_annotations *)

\* a variant of need_rename_export that keeps the name of every action of a
\* directive file, exported or not
need_rename_in_action_file(s, is_exported) == s.in_action_file

\* need_rename_export
need_rename_export(s, is_exported) ==
    s.in_action_file /\ (s.in_export_decl \/ is_exported)

\* a variant of action_name that prefixes every name
ActionNamePrefixed(s, ident, is_exported) == "$ACTION_" \o Sym(ident.id)

\* action_name
ActionName(s, ident, is_exported) ==
    IF need_rename_export(s, is_exported) THEN Sym(ident.id)
    ELSE "$ACTION_" \o Sym(ident.id)

\* export_name
ExportName(action_name, is_default_export) ==
    IF is_default_export THEN "default" ELSE action_name

\* a variant of the digest that leaves the file name out
ActionIdOfName(file_name, export_name) == hex_encode_sha1(export_name)

\* the three hasher.update calls and the hex encoding of the digest
ActionId(file_name, export_name) ==
    hex_encode_sha1(file_name \o ":" \o export_name)

\* ids_from_closure
IdsFromClosure(s) == Retain(s.action_idents, s.closure_idents)

\* the $$bound annotation of the hoisting branch
BoundAnnotation(ident, ids_from_closure) ==
    annotate(ident, "$$bound",
             ArrayLit([k \in 1..Len(ids_from_closure) |-> NameToExpr(ids_from_closure[k])]))

\* the branch of add_action_annotations that leaves the action in place
IsInPlace(s, arrow) == s.top_level /\ ~IsSome(arrow)

\* which branch add_action_annotations takes
Branch(s, function, arrow) ==
    IF IsInPlace(s, arrow) THEN "in_place"
    ELSE IF IsSome(arrow) THEN "arrow"
    ELSE IF IsSome(function) THEN "function" ELSE "none"

\* the statements add_action_annotations pushes to self.annotations
Annotations(s, ident, export_name, ids_from_closure, branch) ==
    <<annotate(ident, "$$typeof", ServerReference),
      annotate(ident, "$$id", Str(ActionId(s.file_name, export_name)))>>
    \o (CASE branch = "in_place" -> <<annotate(ident, "$$bound", ArrayLit(<<>>))>>
          [] branch = "none" -> <<>>
          [] OTHER -> <<BoundAnnotation(ident, ids_from_closure)>>)

\* the module items add_action_annotations pushes to self.extra_items; body is
\* the function's body once the ClosureReplacer has gone through it
ExtraItems(s, ident, function, is_exported, action_ident, closure_arg, body, branch) ==
    CASE branch = "in_place" ->
            IF ~need_rename_export(s, is_exported)
            THEN <<ExportDecl(DUMMY_SP, VarDecl("const",
                       <<VarDeclarator(PatIdent(action_ident.id), ident)>>))>>
            ELSE <<>>
      [] branch = "arrow" ->
            <<StmtItem(VarDecl("var", <<VarDeclarator(PatIdent(action_ident.id), None)>>))>>
      [] branch = "function" ->
            <<ExportDecl(DUMMY_SP, FnDecl(action_ident,
                  Function(<<Param(PatIdent(closure_arg))>>, body, function.is_async)))>>
      [] OTHER -> <<>>

\* add_action_annotations once its locals are computed: the struct, function
\* and arrow as the call leaves them, and the pair it returns
Annotated(s, ident, function, arrow, is_exported, is_default_export, export_name, action_ident, branch, a, annotations, extra) ==
    [s |-> [s EXCEPT
              !.has_action = TRUE,
              !.export_actions = Append(@, export_name),
              !.annotations = @ \o annotations,
              !.extra_items = @ \o extra,
              !.calls = Append(@,
                  [ident |-> ident, export_name |-> export_name,
                   branch |-> branch, top_level |-> s.top_level,
                   in_action_file |-> s.in_action_file,
                   is_exported |-> is_exported,
                   is_default_export |-> is_default_export,
                   function |-> function, arrow |-> arrow,
                   annotations |-> annotations, extra |-> extra])],
     function |-> function,
     arrow |-> IF branch = "arrow" THEN a ELSE arrow,
     new_fn |-> IF branch = "function"
                THEN Function(function.params,
                         BlockStmt(<<ReturnStmt(
                             Call(action_ident, <<Member(ident, "$$bound")>>))>>),
                         function.is_async)
                ELSE None,
     new_arrow |-> IF branch = "arrow"
                   THEN Arrow(DUMMY_SP, a.params,
                              Call(action_ident, <<Member(ident, "$$bound")>>), a.is_async)
                   ELSE None]

\* add_action_annotations with action_name, ids_from_closure and the branch known
AnnotateAs(s, ident, function, arrow, is_exported, is_default_export, action_name, ids_from_closure, branch) ==
    Annotated(s, ident, function, arrow, is_exported, is_default_export,
              ExportName(action_name, is_default_export),
              Ident(Id(action_name, PrivateCtxt)),
              branch,
              ClosureReplacer(Id("closure", PrivateCtxt), ids_from_closure, arrow),
              Annotations(s, ident, ExportName(action_name, is_default_export),
                          ids_from_closure, branch),
              ExtraItems(s, ident, function, is_exported,
                         Ident(Id(action_name, PrivateCtxt)),
                         Id("closure", PrivateCtxt),
                         ClosureReplacer(Id("closure", PrivateCtxt), ids_from_closure,
                                         function.body),
                         branch))

\* add_action_annotations
add_action_annotations(s, ident, function, arrow, is_exported, is_default_export) ==
    AnnotateAs(s, ident, function, arrow, is_exported, is_default_export,
               ActionName(s, ident, is_exported), IdsFromClosure(s),
               Branch(s, function, arrow))

-----------------------------------------------------------------------------
(* impl VisitMut for ServerActions *)

ExprTypes ==
    {"Ident", "Member", "OptChain", "MemberComputed", "Str", "Num", "Bin", "Call",
     "Array", "Object", "Assign", "Class", "Fn", "Arrow"}

StmtTypes == {"ExprStmt", "Return", "FnDecl", "VarDecl", "ClassDecl"}

\* the flags visit_mut_fn_expr and visit_mut_fn_decl set for the children
EnterFn(s, is_action_fn) ==
    [s EXCEPT !.in_action_fn = is_action_fn,
              !.in_module = FALSE,
              !.should_add_name = TRUE,
              !.in_export_decl = FALSE,
              !.in_default_export_decl = FALSE]

\* a variant that puts back the flags of the function and leaves the export
\* flags as the children had them
LeaveFnWithoutExport(s, old) ==
    [s EXCEPT !.in_action_fn = old.in_action_fn,
              !.in_module = old.in_module,
              !.should_add_name = old.should_add_name]

\* ... and put back once the children are visited
LeaveFn(s, old) ==
    [s EXCEPT !.in_action_fn = old.in_action_fn,
              !.in_module = old.in_module,
              !.should_add_name = old.should_add_name,
              !.in_export_decl = old.in_export_decl,
              !.in_default_export_decl = old.in_default_export_decl]

\* the identifiers visit_mut_param records for a parameter pattern
ParamIdents(pat) ==
    CASE pat.type = "PatIdent" -> <<pat.id>>
      [] pat.type = "PatArray" -> collect_idents_in_array_pat(pat.elems)
      [] pat.type = "PatRest" ->
            IF pat.arg.type = "PatIdent" THEN <<pat.arg.id>> ELSE <<>>
      [] OTHER -> <<>>

RECURSIVE Visit(_, _, _)
\* Visit(s, n, how) is one call of the visitor on node n:
\*   how = "with"      n.visit_mut_with(self), the method of n's type
\*   how = "stmt"      visit_mut_stmt, for n as a Stmt
\*   how = "children"  n.visit_mut_children_with(self), the derived traversal

\* a value handed to what comes next in a method's body
With(v, Op(_)) == Op(v)

\* the node n with its child replaced by the child as a visit left it
Put(n, child, a) == R(a.s, [n EXCEPT ![child] = a.n])

\* a Vec of nodes, visited in order
VisitList(s, ns, how) ==
    LET Upto[k \in 0..Len(ns)] ==
            IF k = 0 THEN R(s, <<>>)
            ELSE With(Upto[k - 1], LAMBDA u :
                     With(Visit(u.s, ns[k], how), LAMBDA v : R(v.s, Append(u.n, v.n))))
    IN  Upto[Len(ns)]

\* a node with one child
VisitOne(s, n, child) == Put(n, child, Visit(s, n[child], "with"))

\* a node whose child is a Vec
VisitVec(s, n, child) == Put(n, child, VisitList(s, n[child], "with"))

\* a node with two children, visited one after the other
VisitBoth(s, n, first, second) ==
    With(VisitOne(s, n, first), LAMBDA a : VisitOne(a.s, a.n, second))

\* visit_mut_children_with for the nodes whose traversal no method overrides
DerivedTraversal(s, n) ==
    CASE n.type \in {"Member", "OptChain"} -> VisitOne(s, n, "obj")
      [] n.type = "MemberComputed" -> VisitBoth(s, n, "obj", "index")
      [] n.type \in {"Bin", "Assign", "PatAssign"} -> VisitBoth(s, n, "left", "right")
      [] n.type = "Call" ->
            With(VisitOne(s, n, "callee"), LAMBDA c : VisitVec(c.s, c.n, "args"))
      [] n.type \in {"Array", "PatArray"} -> VisitVec(s, n, "elems")
      [] n.type = "Object" -> VisitVec(s, n, "props")
      [] n.type = "KeyValue" -> VisitOne(s, n, "value")
      [] n.type = "PatRest" -> VisitOne(s, n, "arg")
      [] n.type = "Param" -> VisitOne(s, n, "pat")
      [] n.type = "Function" ->
            With(VisitVec(s, n, "params"), LAMBDA q : VisitOne(q.s, q.n, "body"))
      [] n.type = "ExprStmt" -> VisitOne(s, n, "expr")
      [] n.type = "Return" -> VisitOne(s, n, "arg")
      [] n.type = "VarDeclarator" -> VisitBoth(s, n, "name", "init")
      [] OTHER -> R(s, n)

\* a variant of the iteration that puts the annotations before the statement
StmtsStepAnnotationsFirst(u, v) ==
    R([v.s EXCEPT !.annotations = <<>>], u.n \o v.s.annotations \o <<v.n>>)

\* one iteration of the loop of visit_mut_stmts: u.n is the local `new` so far,
\* v the statement as its visit left it
StmtsStep(u, v) ==
    R([v.s EXCEPT !.annotations = <<>>], u.n \o <<v.n>> \o v.s.annotations)

\* the end of visit_mut_stmts: the annotation buffer and top_level are put back
StmtsDone(s, loop) ==
    R([loop.s EXCEPT !.annotations = s.annotations, !.top_level = s.top_level], loop.n)

\* visit_mut_stmts
visit_mut_stmts(s, ss) ==
    LET Upto[k \in 0..Len(ss)] ==
            IF k = 0 THEN R([s EXCEPT !.annotations = <<>>], <<>>)
            ELSE With(Upto[k - 1], LAMBDA u :
                     StmtsStep(u, Visit([u.s EXCEPT !.top_level = FALSE], ss[k], "stmt")))
    IN  StmtsDone(s, Upto[Len(ss)])

\* what visit_mut_stmt does once the statement's children are visited
CollectStmt(r) ==
    IF r.s.in_module THEN r
    ELSE IF ~r.s.in_action_fn /\ ~r.s.in_action_file
         THEN R([r.s EXCEPT !.closure_idents = @ \o collect_idents_in_stmt(r.n)], r.n)
         ELSE r

\* visit_mut_stmt
visit_mut_stmt(s, n) ==
    CollectStmt(Visit(s, n, IF n.type \in {"FnDecl", "VarDecl"} THEN "with" ELSE "children"))

\* what visit_mut_param does once the parameter's children are visited
CollectParam(r) ==
    IF r.s.in_prepass THEN r
    ELSE IF ~r.s.in_action_fn /\ ~r.s.in_action_file
         THEN R([r.s EXCEPT !.closure_idents = @ \o ParamIdents(r.n.pat)], r.n)
         ELSE r

\* visit_mut_param
visit_mut_param(s, n) == CollectParam(Visit(s, n, "children"))

\* should_add_name is put back once the children of a name are visited
NameDone(r) == R([r.s EXCEPT !.should_add_name = TRUE], r.n)

\* visit_mut_expr
visit_mut_expr(s, n) ==
    IF s.in_action_fn /\ s.should_add_name /\ IsSome(NameTryFrom(n))
    THEN NameDone(Visit([s EXCEPT !.should_add_name = FALSE,
                                  !.action_idents =
                                      IF ~s.in_prepass THEN Append(@, NameTryFrom(n))
                                      ELSE @],
                        n, "children"))
    ELSE Visit(s, n, "children")

\* the function put in place of the one add_action_annotations was given
ReplaceFn(f, a) == R(a.s, IF IsSome(a.new_fn) THEN [f EXCEPT !.function = a.new_fn] ELSE f)

\* the part of visit_mut_fn_expr and visit_mut_fn_decl after the children are
\* visited: the diagnostic for a function that is not async, or the annotations
AnnotateFn(s, f, info) ==
    IF ~info.is_action_fn THEN R(s, f)
    ELSE IF ~f.function.is_async THEN R(Emit(s, f.ident, MustBeAsync), f)
    ELSE ReplaceFn(f, add_action_annotations(s, f.ident, f.function, None,
                                             info.is_exported, info.is_default_export))

\* whether visit_mut_fn_expr gives the anonymous function a name
NeedsDefaultName(s, f) ==
    ~IsSome(f.ident) /\ s.in_action_file /\ s.in_export_decl /\ f.function.is_async

\* the flags are put back and the function, its children visited, is annotated
LeaveAndAnnotate(s, f, info, c) ==
    AnnotateFn(LeaveFn(c.s, s), [f EXCEPT !.function = c.n], info)

\* the part of visit_mut_fn_expr and visit_mut_fn_decl from the children on
VisitFnWith(s, f, info) ==
    LeaveAndAnnotate(s, f, info,
        Visit(EnterFn(s, info.is_action_fn), [f.function EXCEPT !.body = info.body],
              "children"))

\* the part of visit_mut_fn_expr and visit_mut_fn_decl from get_action_info on
VisitFn(s, f) == VisitFnWith(s, f, get_action_info(s, f.ident, f.function.body))

\* visit_mut_fn_expr
visit_mut_fn_expr(s, f) ==
    IF s.in_action_file /\ s.in_prepass
    THEN R(IF f.function.is_async /\ IsSome(f.ident)
           THEN [s EXCEPT !.async_fn_idents = Append(@, f.ident.id)] ELSE s, f)
    ELSE IF ~IsSome(f.ident) /\ ~NeedsDefaultName(s, f)
    THEN VisitOne(s, f, "function")
    ELSE IF ~IsSome(f.ident)
    THEN VisitFn([s EXCEPT !.action_index = @ + 1],
                 [f EXCEPT !.ident =
                     Ident(Id("$ACTION_default_" \o ToString(s.action_index), EmptyCtxt))])
    ELSE VisitFn(s, f)

\* visit_mut_fn_decl
visit_mut_fn_decl(s, f) ==
    IF s.in_action_file /\ s.in_prepass
    THEN R(IF f.function.is_async
           THEN [s EXCEPT !.async_fn_idents = Append(@, f.ident.id)] ELSE s, f)
    ELSE VisitFn(s, f)

\* visit_mut_arrow_expr in the pre-pass, info being what get_action_info said
PrepassArrow(s, a, info) ==
    R(IF info.is_action_fn /\ a.is_async
      THEN [s EXCEPT !.action_arrow_span = Append(@, a.span)] ELSE s,
      IF a.body.type = "BlockStmt" THEN [a EXCEPT !.body = info.body] ELSE a)

\* visit_mut_arrow_expr
visit_mut_arrow_expr(s, a) ==
    IF s.in_prepass
    THEN PrepassArrow(s, a, get_action_info(s, None,
                                IF a.body.type = "BlockStmt" THEN a.body ELSE None))
    ELSE With(VisitVec(s, a, "params"), LAMBDA q : VisitOne(q.s, q.n, "body"))

\* the name visit_mut_var_decl gives a function expression that has none
NamedFn(s, fn_expr) ==
    IF IsSome(fn_expr.ident) THEN fn_expr
    ELSE [fn_expr EXCEPT !.ident =
            Ident(Id("$ACTION_fn_" \o ToString(s.action_index), EmptyCtxt))]

\* a variant of the record pushed for an exported variable that holds the
\* variable's own identifier
ExportRecordOfVar(s, decl, exported_ident) ==
    <<decl.name.id, s.exported_idents[exported_ident][2]>>

\* the (identifier, is default export) record visit_mut_var_decl pushes for an
\* exported variable that is initialised with an async function expression
ExportRecordOfFn(s, decl, exported_ident) ==
    <<NamedFn(s, decl.init).ident.id, s.exported_idents[exported_ident][2]>>

\* one iteration of the loop of visit_mut_var_decl: u is the struct and the
\* declarators so far, k the position of the declarator
VarDeclStep(u, k) ==
    LET decl == u.n[k]
        fn_expr == decl.init
        exported_ident ==
            IF decl.name.type = "PatIdent" THEN ExportedIdent(u.s, decl.name.id) ELSE 0
    IN  IF IsSome(decl.init) /\ decl.name.type = "PatIdent"
           /\ fn_expr.type = "Fn" /\ fn_expr.function.is_async
        THEN IF u.s.in_prepass
             THEN R([u.s EXCEPT !.async_fn_idents = Append(@, decl.name.id)], u.n)
             ELSE IF exported_ident > 0
             THEN R([u.s EXCEPT
                       !.action_index = IF IsSome(fn_expr.ident) THEN @ ELSE @ + 1,
                       !.exported_idents =
                           Append(@, ExportRecordOfFn(u.s, decl, exported_ident))],
                    [u.n EXCEPT ![k].init = NamedFn(u.s, fn_expr)])
             ELSE u
        ELSE u

\* the loop of visit_mut_var_decl over the declarators
VarDeclLoop(s, decls) ==
    LET Upto[k \in 0..Len(decls)] ==
            IF k = 0 THEN R(s, decls) ELSE VarDeclStep(Upto[k - 1], k)
    IN  Upto[Len(decls)]

\* visit_mut_var_decl
visit_mut_var_decl(s, n) ==
    With(IF s.in_action_file THEN VarDeclLoop(s, n.decls) ELSE R(s, n.decls),
         LAMBDA l : VisitVec(l.s, [n EXCEPT !.decls = l.n], "decls"))

Visit(s, n, how) ==
    CASE how = "stmt" -> visit_mut_stmt(s, n)
      [] how = "with" /\ n.type \in ExprTypes -> visit_mut_expr(s, n)
      [] how = "with" /\ n.type = "Param" -> visit_mut_param(s, n)
      [] how = "with" /\ n.type = "FnDecl" -> visit_mut_fn_decl(s, n)
      [] how = "with" /\ n.type = "VarDecl" -> visit_mut_var_decl(s, n)
      [] how = "with" /\ n.type = "BlockStmt" ->
            Put(n, "stmts", visit_mut_stmts(s, n.stmts))
      \* the children of Expr::Fn and Expr::Arrow are the FnExpr and the ArrowExpr
      [] how = "children" /\ n.type = "Fn" -> visit_mut_fn_expr(s, n)
      [] how = "children" /\ n.type = "Arrow" -> visit_mut_arrow_expr(s, n)
      [] OTHER -> DerivedTraversal(s, n)

\* visit_mut_decl: the method of the declaration's type
VisitDecl(s, d) == Visit(s, d, "with")

\* in_export_decl is put back as visit_mut_export_decl found it
LeaveExportDecl(s, n, d) ==
    R([d.s EXCEPT !.in_export_decl = s.in_export_decl], [n EXCEPT !.decl = d.n])

\* visit_mut_export_decl
visit_mut_export_decl(s, n) ==
    LeaveExportDecl(s, n, VisitDecl([s EXCEPT !.in_export_decl = TRUE], n.decl))

\* the export flags are put back as a default export's method found them
LeaveExport(s, n, child, d) ==
    R([d.s EXCEPT !.in_export_decl = s.in_export_decl,
                  !.in_default_export_decl = s.in_default_export_decl],
      [n EXCEPT ![child] = d.n])

\* visit_mut_export_default_decl
visit_mut_export_default_decl(s, n) ==
    LeaveExport(s, n, "decl",
        IF n.decl.type = "Fn"
        THEN visit_mut_fn_expr([s EXCEPT !.in_export_decl = TRUE,
                                         !.in_default_export_decl = TRUE], n.decl)
        ELSE R([s EXCEPT !.in_export_decl = TRUE, !.in_default_export_decl = TRUE],
               n.decl))

\* visit_mut_export_default_expr
visit_mut_export_default_expr(s, n) ==
    LeaveExport(s, n, "expr",
        Visit([s EXCEPT !.in_export_decl = TRUE, !.in_default_export_decl = TRUE],
              n.expr, "with"))

\* stmt.visit_mut_with(self) for a module item
VisitModuleItem(s, item) ==
    CASE item.type = "Stmt" -> Put(item, "stmt", visit_mut_stmt(s, item.stmt))
      [] item.type = "ExportDecl" -> visit_mut_export_decl(s, item)
      [] item.type = "ExportDefaultDecl" -> visit_mut_export_default_decl(s, item)
      [] item.type = "ExportDefaultExpr" -> visit_mut_export_default_expr(s, item)
      [] OTHER -> R(s, item)

-----------------------------------------------------------------------------
(* visit_mut_module_items *)

\* a variant of the pre-pass's records that leaves `export default foo` out
PrepassExportsNamedOnly(item) ==
    CASE item.type = "ExportDecl" /\ item.decl.type = "VarDecl" ->
            LET ids == collect_idents_in_var_decls(item.decl.decls)
            IN  [k \in 1..Len(ids) |-> <<ids[k], FALSE>>]
      [] item.type = "ExportNamed" ->
            Flatten([k \in 1..Len(item.specifiers) |->
                IF item.specifiers[k].type = "NamedSpecifier"
                THEN <<<<item.specifiers[k].orig.id, FALSE>>>> ELSE <<>>])
      [] OTHER -> <<>>

\* the identifiers the pre-pass records for a module item
PrepassExports(item) ==
    CASE item.type = "ExportDecl" /\ item.decl.type = "VarDecl" ->
            LET ids == collect_idents_in_var_decls(item.decl.decls)
            IN  [k \in 1..Len(ids) |-> <<ids[k], FALSE>>]
      [] item.type = "ExportNamed" ->
            Flatten([k \in 1..Len(item.specifiers) |->
                IF item.specifiers[k].type = "NamedSpecifier"
                THEN <<<<item.specifiers[k].orig.id, FALSE>>>> ELSE <<>>])
      [] item.type = "ExportDefaultExpr" /\ item.expr.type = "Ident" ->
            <<<<item.expr.id, TRUE>>>>
      [] OTHER -> <<>>

\* a variant of the check of a specifier that refuses none
SpecifierAllowed(s, spec) == FALSE

\* whether a specifier of a local named export is refused
SpecifierDisallowed(s, spec) ==
    IF spec.type = "NamedSpecifier"
    THEN ~Contains(s.async_fn_idents, spec.orig.id)
    ELSE TRUE

\* whether an initializer of an exported variable declaration is refused
InitDisallowed(init) == IsSome(init) /\ init.type \notin {"Fn", "Arrow"}

\* whether a default-exported expression is refused
DefaultExprDisallowed(s, expr) ==
    CASE expr.type = "Fn" -> FALSE
      [] expr.type = "Arrow" -> ~Contains(s.action_arrow_span, expr.span)
      [] expr.type = "Ident" -> ~Contains(s.async_fn_idents, expr.id)
      [] OTHER -> TRUE

\* disallowed_export_span once the match on the item is done
DisallowedExportSpan(s, stmt) ==
    CASE stmt.type = "ExportDecl" ->
            CASE stmt.decl.type = "FnDecl" -> DUMMY_SP
              [] stmt.decl.type = "VarDecl" ->
                    IF \E k \in 1..Len(stmt.decl.decls) :
                           InitDisallowed(stmt.decl.decls[k].init)
                    THEN stmt.span ELSE DUMMY_SP
              [] OTHER -> stmt.span
      [] stmt.type = "ExportNamed" ->
            IF IsSome(stmt.src) THEN stmt.span
            ELSE IF \E k \in 1..Len(stmt.specifiers) :
                        SpecifierDisallowed(s, stmt.specifiers[k])
                 THEN stmt.span ELSE DUMMY_SP
      [] stmt.type = "ExportDefaultDecl" ->
            IF stmt.decl.type = "Fn" THEN DUMMY_SP ELSE stmt.span
      [] stmt.type = "ExportDefaultExpr" ->
            IF DefaultExprDisallowed(s, stmt.expr) THEN stmt.span ELSE DUMMY_SP
      [] stmt.type = "ExportAll" -> stmt.span
      [] OTHER -> DUMMY_SP

\* the default-exported arrow that the pre-pass recognised: it is named,
\* annotated and turned into an assignment to that name
NameDefaultArrow(s, stmt) ==
    With(Ident(Id("$ACTION_default_" \o ToString(s.action_index), EmptyCtxt)),
         LAMBDA ident :
            With(add_action_annotations([s EXCEPT !.action_index = @ + 1],
                                        ident, None, stmt.expr, TRUE, TRUE),
                 LAMBDA a :
                    R(a.s, [stmt EXCEPT !.expr = Assign(PatIdent(ident.id), a.arrow)])))

\* a variant of the export check that reports a refused export twice
CheckExportTwice(s, stmt) ==
    IF DisallowedExportSpan(s, stmt) # DUMMY_SP
    THEN R(Emit(Emit(s, DisallowedExportSpan(s, stmt), OnlyAsyncExports),
                DisallowedExportSpan(s, stmt), OnlyAsyncExports), stmt)
    ELSE IF stmt.type = "ExportDefaultExpr" /\ stmt.expr.type = "Arrow"
    THEN NameDefaultArrow(s, stmt)
    ELSE R(s, stmt)

\* the export check of the main loop, for a file with the directive
CheckExport(s, stmt) ==
    IF DisallowedExportSpan(s, stmt) # DUMMY_SP
    THEN R(Emit(s, DisallowedExportSpan(s, stmt), OnlyAsyncExports), stmt)
    ELSE IF stmt.type = "ExportDefaultExpr" /\ stmt.expr.type = "Arrow"
    THEN NameDefaultArrow(s, stmt)
    ELSE R(s, stmt)

\* the text of the marker comment
MarkerText(export_actions) ==
    LET Join[k \in 0..Len(export_actions)] ==
            IF k = 0 THEN ""
            ELSE IF k = 1 THEN export_actions[1]
            ELSE Join[k - 1] \o "," \o export_actions[k]
    IN  " __next_internal_action_entry_do_not_use__ "
        \o Join[Len(export_actions)] \o " "

\* a variant of the epilogue's test that looks at the export-action list
AttachesCommentIfListed(s) == s.export_actions # <<>>

\* whether the epilogue attaches the marker comment
AttachesComment(s) == s.has_action

-----------------------------------------------------------------------------
(* The steps *)

\* visit_mut_module, and visit_mut_module_items up to the loops: the directive
\* is looked for and removed, the annotation buffer is taken
Begin ==
    /\ pc = "begin"
    /\ LET directive_index == get_server_directive_index_in_module(stmts)
           found == directive_index >= 0
       IN  /\ stmts' = IF found THEN Remove(stmts, directive_index) ELSE stmts
           /\ self' = [self EXCEPT !.start_pos = 1,
                                   !.in_action_file = IF found THEN TRUE ELSE @,
                                   !.has_action = IF found THEN TRUE ELSE @,
                                   !.annotations = <<>>,
                                   !.in_prepass = IF found THEN TRUE ELSE @]
           /\ old_annotations' = self.annotations
           /\ pc' = IF found THEN "prepass" ELSE "main"
    /\ new' = <<>>
    /\ i' = 1
    /\ UNCHANGED <<input, emitted>>

\* one iteration of the pre-pass loop
Prepass ==
    /\ pc = "prepass"
    /\ i <= Len(stmts)
    /\ \E r \in {VisitModuleItem(
                    [self EXCEPT !.exported_idents = @ \o PrepassExports(stmts[i])],
                    stmts[i])} :
          /\ self' = r.s
          /\ stmts' = [stmts EXCEPT ![i] = r.n]
    /\ i' = i + 1
    /\ UNCHANGED <<input, new, old_annotations, pc, emitted>>

\* the pre-pass loop is over
PrepassDone ==
    /\ pc = "prepass"
    /\ i > Len(stmts)
    /\ self' = [self EXCEPT !.in_prepass = FALSE]
    /\ pc' = "main"
    /\ i' = 1
    /\ UNCHANGED <<input, stmts, new, old_annotations, emitted>>

\* the body of the main loop up to the pushes to `new`: the export check of a
\* file with the directive, then the visit of the item
MainIteration(s, stmt) ==
    With(IF s.in_action_file THEN CheckExport(s, stmt) ELSE R(s, stmt),
         LAMBDA c : VisitModuleItem(c.s, c.n))

\* one iteration of the main loop
Main ==
    /\ pc = "main"
    /\ i <= Len(stmts)
    /\ \E r \in {MainIteration([self EXCEPT !.top_level = TRUE], stmts[i])} :
           /\ new' = new \o <<r.n>>
                         \o [k \in 1..Len(r.s.annotations) |-> StmtItem(r.s.annotations[k])]
                         \o r.s.extra_items
           /\ self' = [r.s EXCEPT !.annotations = <<>>, !.extra_items = <<>>]
           /\ emitted' = Append(emitted,
                  [item |-> stmts[i], stmt |-> r.n,
                   annotations |-> r.s.annotations,
                   extra_items |-> r.s.extra_items,
                   errors |-> SubSeq(r.s.errors, Len(self.errors) + 1, Len(r.s.errors)),
                   calls |-> SubSeq(r.s.calls, Len(self.calls) + 1, Len(r.s.calls))])
    /\ i' = i + 1
    /\ UNCHANGED <<input, stmts, old_annotations, pc>>

\* the epilogue: the new items replace the old, the annotation buffer is put
\* back, the marker comment is attached
Finish ==
    /\ pc = "main"
    /\ i > Len(stmts)
    /\ stmts' = new
    /\ self' = [self EXCEPT
                  !.annotations = old_annotations,
                  !.comments =
                      IF AttachesComment(self)
                      THEN Append(@, [pos |-> self.start_pos, kind |-> "Block",
                                      text |-> MarkerText(self.export_actions)])
                      ELSE @]
    /\ pc' = "done"
    /\ UNCHANGED <<input, new, old_annotations, i, emitted>>

Next == Begin \/ Prepass \/ PrepassDone \/ Main \/ Finish

-----------------------------------------------------------------------------
(* The modules the transform is run on *)

FileNames == {"/a/b.js"}

\* the span of the item at position p, and of the k-th node inside it
SpanAt(p, k) == 10 * p + k

\* the context the resolver gives the k-th scope inside the item at position p
CtxAt(p, k) == 10 * p + k

\* the context the resolver gives to the bindings of the module scope
TopCtxt == CtxAt(0, 1)

\* an identifier of the module scope
Top(sym) == Id(sym, TopCtxt)

UseServer == ExprStmt(Str("use server"))

UseStrict == ExprStmt(Str("use strict"))

Return1 == ReturnStmt(Num(1))

\* async? function sym(params) { body }
Fn(sym, is_async, params, body) ==
    FnDecl(Ident(Top(sym)), Function(params, BlockStmt(body), is_async))

\* const sym = init;
Const(sym, init) == VarDecl("const", <<VarDeclarator(PatIdent(Top(sym)), init)>>)

\* the items a module is made of: for each shape, the item at position p
Item(shape, p) ==
    LET x == Id("x", CtxAt(p, 1))
        y == Id("y", CtxAt(p, 1))
        act == Id("act", CtxAt(p, 1))
        act2 == Id("act2", CtxAt(p, 1))
    IN
    CASE \* async function foo(x) { return x + 1; }
         shape = "fn_async" ->
            StmtItem(Fn("foo", TRUE, <<Param(PatIdent(x))>>,
                        <<ReturnStmt(Bin(Ident(x), Num(1)))>>))
         \* function helper() { return 1; }
      [] shape = "fn_sync" -> StmtItem(Fn("helper", FALSE, <<>>, <<Return1>>))
         \* async function act() { "use server"; return 1; }
      [] shape = "fn_async_dir" ->
            StmtItem(Fn("act", TRUE, <<>>, <<UseServer, Return1>>))
         \* function bad() { "use server"; return 1; }
      [] shape = "fn_sync_dir" ->
            StmtItem(Fn("bad", FALSE, <<>>, <<UseServer, Return1>>))
         \* async function strict() { "use strict"; "use server"; return 1; }
      [] shape = "fn_strict_dir" ->
            StmtItem(Fn("strict", TRUE, <<>>, <<UseStrict, UseServer, Return1>>))
         \* async function late() { return 1; "use server"; }
      [] shape = "fn_late_dir" ->
            StmtItem(Fn("late", TRUE, <<>>, <<Return1, UseServer>>))
         \* function outer(x) { return async function act() { "use server"; return x + 1; } }
      [] shape = "outer_capture" ->
            StmtItem(Fn("outer", FALSE, <<Param(PatIdent(x))>>,
                <<ReturnStmt(FnExpr(Ident(act),
                    Function(<<>>, BlockStmt(<<UseServer,
                        ReturnStmt(Bin(Ident(x), Num(1)))>>), TRUE)))>>))
         \* function outer2(x, y) {
         \*   async function act() { "use server"; return x + x; }
         \*   async function act2() { "use server"; return y.z; } }
      [] shape = "outer_two" ->
            StmtItem(Fn("outer2", FALSE, <<Param(PatIdent(x)), Param(PatIdent(y))>>,
                <<FnDecl(Ident(act), Function(<<>>, BlockStmt(<<UseServer,
                      ReturnStmt(Bin(Ident(x), Ident(x)))>>), TRUE)),
                  FnDecl(Ident(act2), Function(<<>>, BlockStmt(<<UseServer,
                      ReturnStmt(Member(Ident(y), "z"))>>), TRUE))>>))
         \* const v = function () { "use server"; return 1; };
      [] shape = "var_anon_sync_dir" ->
            StmtItem(Const("v", FnExpr(None,
                Function(<<>>, BlockStmt(<<UseServer, Return1>>), FALSE))))
         \* const w = () => { "use server"; return 1; };
      [] shape = "var_arrow_sync_dir" ->
            StmtItem(Const("w", Arrow(SpanAt(p, 1), <<>>,
                BlockStmt(<<UseServer, Return1>>), FALSE)))
         \* const named = function inner() { "use server"; return 1; };
      [] shape = "var_named_sync_dir" ->
            StmtItem(Const("named", FnExpr(Ident(Id("inner", CtxAt(p, 1))),
                Function(<<>>, BlockStmt(<<UseServer, Return1>>), FALSE))))
         \* const va = async function () { "use server"; return 1; };
      [] shape = "var_anon_async_dir" ->
            StmtItem(Const("va", FnExpr(None,
                Function(<<>>, BlockStmt(<<UseServer, Return1>>), TRUE))))
         \* const wa = async () => { "use server"; return 1; };
      [] shape = "var_arrow_async_dir" ->
            StmtItem(Const("wa", Arrow(SpanAt(p, 1), <<>>,
                BlockStmt(<<UseServer, Return1>>), TRUE)))
         \* const na = async function innera() { "use server"; return 1; };
      [] shape = "var_named_async_dir" ->
            StmtItem(Const("na", FnExpr(Ident(Id("innera", CtxAt(p, 1))),
                Function(<<>>, BlockStmt(<<UseServer, Return1>>), TRUE))))
         \* const mk = (x) => async function act() { "use server"; return x; };
      [] shape = "arrow_returns_action" ->
            StmtItem(Const("mk", Arrow(SpanAt(p, 1), <<PatIdent(x)>>,
                FnExpr(Ident(act), Function(<<>>,
                    BlockStmt(<<UseServer, ReturnStmt(Ident(x))>>), TRUE)), FALSE)))
         \* function dflt(x, y = async function act() { "use server"; return x; }) { }
      [] shape = "param_default_action" ->
            StmtItem(Fn("dflt", FALSE,
                <<Param(PatIdent(x)),
                  Param(PatAssign(PatIdent(y),
                      FnExpr(Ident(act), Function(<<>>,
                          BlockStmt(<<UseServer, ReturnStmt(Ident(x))>>), TRUE))))>>,
                <<>>))
         \* function holder() {
         \*   async function act(x) {
         \*     "use server";
         \*     function inner(y) { async function act2() { "use server"; return y; } }
         \*   }
         \* }
      [] shape = "action_holds_helper" ->
            StmtItem(Fn("holder", FALSE, <<>>,
                <<FnDecl(Ident(act), Function(<<Param(PatIdent(x))>>, BlockStmt(<<UseServer,
                      FnDecl(Ident(Id("inner", CtxAt(p, 2))),
                          Function(<<Param(PatIdent(y))>>, BlockStmt(<<
                              FnDecl(Ident(act2), Function(<<>>, BlockStmt(<<UseServer,
                                  ReturnStmt(Ident(y))>>), TRUE))>>), FALSE))>>), TRUE))>>))
         \* function pack(x, y) {
         \*   async function act() { "use server"; return { x }; }
         \*   async function act2() { "use server"; return { y, k: y }; } }
      [] shape = "outer_shorthand" ->
            StmtItem(Fn("pack", FALSE, <<Param(PatIdent(x)), Param(PatIdent(y))>>,
                <<FnDecl(Ident(act), Function(<<>>, BlockStmt(<<UseServer,
                      ReturnStmt(ObjectLit(<<Shorthand(x)>>))>>), TRUE)),
                  FnDecl(Ident(act2), Function(<<>>, BlockStmt(<<UseServer,
                      ReturnStmt(ObjectLit(<<Shorthand(y),
                                             KeyValue(Id("k", EmptyCtxt), Ident(y))>>))>>),
                      TRUE))>>))
         \* const fe = async function () { return 1; };
      [] shape = "var_async_fn" ->
            StmtItem(Const("fe", FnExpr(None,
                Function(<<>>, BlockStmt(<<Return1>>), TRUE))))
         \* log(1);
      [] shape = "expr" ->
            StmtItem(ExprStmt(Call(Ident(Id("log", EmptyCtxt)), <<Num(1)>>)))
         \* export async function ea(x) { return x; }
      [] shape = "export_async_fn" ->
            ExportDecl(SpanAt(p, 0), Fn("ea", TRUE, <<Param(PatIdent(x))>>,
                                        <<ReturnStmt(Ident(x))>>))
         \* export async function eb() { async function act() { "use server"; return 1; } }
      [] shape = "export_async_nested" ->
            ExportDecl(SpanAt(p, 0), Fn("eb", TRUE, <<>>,
                <<FnDecl(Ident(act), Function(<<>>,
                      BlockStmt(<<UseServer, Return1>>), TRUE))>>))
         \* export async function ed() { "use server"; return 1; }
      [] shape = "export_async_dir" ->
            ExportDecl(SpanAt(p, 0), Fn("ed", TRUE, <<>>, <<UseServer, Return1>>))
         \* export function es() { return 1; }
      [] shape = "export_sync_fn" ->
            ExportDecl(SpanAt(p, 0), Fn("es", FALSE, <<>>, <<Return1>>))
         \* export { foo };
      [] shape = "export_named_foo" ->
            NamedExport(SpanAt(p, 0), <<ExportNamedSpecifier(Ident(Top("foo")))>>, None)
         \* export { helper };
      [] shape = "export_named_helper" ->
            NamedExport(SpanAt(p, 0), <<ExportNamedSpecifier(Ident(Top("helper")))>>, None)
         \* export { fe };
      [] shape = "export_named_fe" ->
            NamedExport(SpanAt(p, 0), <<ExportNamedSpecifier(Ident(Top("fe")))>>, None)
         \* export default foo;
      [] shape = "export_default_foo" ->
            ExportDefaultExpr(SpanAt(p, 0), Ident(Top("foo")))
         \* export default async function () { return 1; }
      [] shape = "export_default_async_fn" ->
            ExportDefaultDecl(SpanAt(p, 0), FnExpr(None,
                Function(<<>>, BlockStmt(<<Return1>>), TRUE)))
         \* export default function () { return 1; }
      [] shape = "export_default_sync_fn" ->
            ExportDefaultDecl(SpanAt(p, 0), FnExpr(None,
                Function(<<>>, BlockStmt(<<Return1>>), FALSE)))
         \* export default class {}
      [] shape = "export_default_class" ->
            ExportDefaultDecl(SpanAt(p, 0), ClassExpr(None))
         \* export default async () => { return 1; };
      [] shape = "export_default_arrow" ->
            ExportDefaultExpr(SpanAt(p, 0),
                Arrow(SpanAt(p, 1), <<>>, BlockStmt(<<Return1>>), TRUE))
         \* export const ca = () => { return 1; };
      [] shape = "export_const_sync_arrow" ->
            ExportDecl(SpanAt(p, 0), Const("ca",
                Arrow(SpanAt(p, 1), <<>>, BlockStmt(<<Return1>>), FALSE)))
         \* export const cv = 1;
      [] shape = "export_const_value" -> ExportDecl(SpanAt(p, 0), Const("cv", Num(1)))
         \* export const c1 = 1, c2 = 2;
      [] shape = "export_const_two_values" ->
            ExportDecl(SpanAt(p, 0), VarDecl("const",
                <<VarDeclarator(PatIdent(Top("c1")), Num(1)),
                  VarDeclarator(PatIdent(Top("c2")), Num(2))>>))
         \* export { helper as h1, helper as h2 };
      [] shape = "export_named_helper_twice" ->
            NamedExport(SpanAt(p, 0),
                <<ExportNamedSpecifier(Ident(Top("helper"))),
                  ExportNamedSpecifier(Ident(Top("helper")))>>, None)
         \* export { r } from "m";
      [] shape = "export_from" ->
            NamedExport(SpanAt(p, 0), <<ExportNamedSpecifier(Ident(Id("r", EmptyCtxt)))>>,
                        Str("m"))
         \* export * from "m";
      [] shape = "export_all" -> ExportAll(SpanAt(p, 0), Str("m"))

Shapes ==
    {"fn_async", "fn_sync", "fn_async_dir", "fn_sync_dir", "fn_strict_dir",
     "fn_late_dir", "outer_capture", "outer_two", "var_anon_sync_dir",
     "var_arrow_sync_dir", "var_named_sync_dir", "var_async_fn", "expr",
     "export_async_fn", "export_async_nested", "export_async_dir", "export_sync_fn",
     "export_named_foo", "export_named_helper", "export_named_fe",
     "export_default_foo", "export_default_async_fn", "export_default_sync_fn",
     "export_default_class", "export_default_arrow", "export_const_sync_arrow",
     "export_const_value", "export_const_two_values", "export_named_helper_twice",
     "var_anon_async_dir", "var_arrow_async_dir", "var_named_async_dir",
     "arrow_returns_action", "param_default_action", "action_holds_helper",
     "outer_shorthand",
     "export_from", "export_all"}

\* the binding of the module scope a shape refers to without declaring it
Needs(shape) ==
    CASE shape \in {"export_named_foo", "export_default_foo"} -> {"fn_async"}
      [] shape \in {"export_named_helper", "export_named_helper_twice"} -> {"fn_sync"}
      [] shape = "export_named_fe" -> {"var_async_fn"}
      [] OTHER -> {}

IsDefaultExport(shape) ==
    shape \in {"export_default_foo", "export_default_async_fn", "export_default_sync_fn",
               "export_default_class", "export_default_arrow"}

\* a module a parser accepts: no binding is declared twice, every local export
\* names a declared binding, and there is at most one default export
WellFormed(shapes) ==
    /\ \A j, k \in 1..Len(shapes) : j # k => shapes[j] # shapes[k]
    /\ \A k \in 1..Len(shapes) :
          Needs(shapes[k]) \subseteq {shapes[j] : j \in 1..Len(shapes)}
    /\ Cardinality({k \in 1..Len(shapes) : IsDefaultExport(shapes[k])}) <= 1

\* the statements a module starts with
Prologues ==
    {<<>>,
     <<StmtItem(UseServer)>>,
     <<StmtItem(UseStrict), StmtItem(UseServer)>>,
     <<StmtItem(ExprStmt(Num(0))), StmtItem(UseServer)>>}

Bodies ==
    {[p \in 1..Len(shapes) |-> Item(shapes[p], p)] :
        shapes \in {ss \in UNION {[1..n -> Shapes] : n \in 0..MaxItems} : WellFormed(ss)}}

Init ==
    /\ input \in {prologue \o body : prologue \in Prologues, body \in Bodies}
    /\ stmts = input
    /\ new = <<>>
    /\ old_annotations = <<>>
    /\ self \in {ServerActions(f) : f \in FileNames}
    /\ pc = "begin"
    /\ i = 1
    /\ emitted = <<>>

Spec == Init /\ [][Next]_vars

-----------------------------------------------------------------------------
(* The directive scans applied to arbitrary statement lists *)

\* longest statement list the scans are applied to
MaxScan == 3

\* the statements of a function body the scan is tried on
ScanStmts == {UseServer, UseStrict, ExprStmt(Num(0)), Return1}

\* the module items the scan is tried on
ScanItems ==
    {StmtItem(UseServer), StmtItem(UseStrict), StmtItem(ExprStmt(Num(0))),
     ExportAll(SpanAt(1, 0), Str("m"))}

ScanInit ==
    /\ \/ pc = "scan_fn" /\ stmts \in UNION {[1..n -> ScanStmts] : n \in 0..MaxScan}
       \/ pc = "scan_module" /\ stmts \in UNION {[1..n -> ScanItems] : n \in 0..MaxScan}
    /\ input = stmts
    /\ new = <<>>
    /\ old_annotations = <<>>
    /\ self = ServerActions("/a/b.js")
    /\ i = -1
    /\ emitted = <<>>

\* get_server_directive_index_in_fn on a function body; i is what it returns
ScanFn ==
    /\ pc = "scan_fn"
    /\ i' = get_server_directive_index_in_fn(stmts)
    /\ pc' = "scanned_fn"
    /\ UNCHANGED <<input, stmts, new, old_annotations, self, emitted>>

\* get_server_directive_index_in_module on a module body; i is what it returns
ScanModule ==
    /\ pc = "scan_module"
    /\ i' = get_server_directive_index_in_module(stmts)
    /\ pc' = "scanned_module"
    /\ UNCHANGED <<input, stmts, new, old_annotations, self, emitted>>

ScanNext == ScanFn \/ ScanModule

ScanSpec == ScanInit /\ [][ScanNext]_vars

-----------------------------------------------------------------------------
(* The capture rewriter applied to action bodies: input is the body as      *)
(* written, self the ClosureReplacer struct, stmts the body as the last     *)
(* application left it, new the body as the application before left it     *)

\* longest capture list the rewriter is given
MaxCaptured == 2

\* the identifiers of the enclosing function that the bodies refer to; one of
\* them is spelled like the parameter of a hoisted function
ReplaceIds == {Id("x", CtxAt(1, 1)), Id("closure", CtxAt(1, 1))}

\* the references of the bodies: identifiers and member chains on them
ReplaceRefs ==
    {Ident(id) : id \in ReplaceIds}
        \cup {Member(Ident(id), "y") : id \in ReplaceIds}
        \cup {OptChain(Ident(id), "y") : id \in ReplaceIds}
        \cup {Member(Member(Ident(id), "y"), "z") : id \in ReplaceIds}

\* the expressions of the bodies
ReplaceExprs ==
    ReplaceRefs
        \cup {MemberComputed(r, Num(0)) : r \in ReplaceRefs}
        \cup {Bin(l, r) : l \in ReplaceRefs, r \in ReplaceRefs}
        \cup {Call(r, <<Ident(id)>>) : r \in ReplaceRefs, id \in ReplaceIds}
        \cup {ObjectLit(<<Shorthand(id), KeyValue(id, r)>>) :
                 id \in ReplaceIds, r \in ReplaceRefs}
        \cup {Arrow(SpanAt(1, 1), <<PatAssign(PatIdent(Id("p", CtxAt(1, 2))), r)>>,
                    Ident(id), FALSE) : r \in ReplaceRefs, id \in ReplaceIds}

\* the capture lists: Names of references, repetitions included
ReplaceNames == {NameTryFrom(r) : r \in ReplaceRefs}

ReplaceInit ==
    /\ pc = "replace"
    /\ \E e \in ReplaceExprs : input = BlockStmt(<<ReturnStmt(e)>>)
    /\ stmts = input
    /\ new = input
    /\ old_annotations = <<>>
    /\ self \in {[closure_arg |-> Id("closure", PrivateCtxt), used_ids |-> u] :
                    u \in UNION {[1..n -> ReplaceNames] : n \in 0..MaxCaptured}}
    /\ i = 0
    /\ emitted = <<>>

\* body.visit_mut_with(&mut ClosureReplacer { closure_arg, used_ids })
Replace ==
    /\ pc = "replace"
    /\ stmts' = ClosureReplacer(self.closure_arg, self.used_ids, stmts)
    /\ new' = stmts
    /\ i' = i + 1
    /\ pc' = "replaced"
    /\ UNCHANGED <<input, old_annotations, self, emitted>>

\* the rewriter applied to a body that it has rewritten
ReplaceAgain ==
    /\ pc = "replaced"
    /\ stmts' = ClosureReplacer(self.closure_arg, self.used_ids, stmts)
    /\ new' = stmts
    /\ i' = i + 1
    /\ pc' = "replaced_again"
    /\ UNCHANGED <<input, old_annotations, self, emitted>>

ReplaceNext == Replace \/ ReplaceAgain

ReplaceSpec == ReplaceInit /\ [][ReplaceNext]_vars

-----------------------------------------------------------------------------
(* What the properties speak of, read off the module as parsed (input) and *)
(* the module, diagnostics and comments as the transform leaves them       *)

Done == pc = "done"

\* a bare string-literal expression statement
IsStrLit(st) == st.type = "ExprStmt" /\ st.expr.type = "Str"

\* the statement "use server";
IsUseServer(st) == IsStrLit(st) /\ st.expr.value = "use server"

\* the positions of a statement list where a directive stands: a "use server"
\* literal with nothing but string literals before it
DirectivePositions(ss) ==
    {k \in 1..Len(ss) : IsUseServer(ss[k]) /\ \A j \in 1..(k - 1) : IsStrLit(ss[j])}

\* the 0-based position of the directive of a statement list, -1 when it has none
DirectiveAt(ss) ==
    IF DirectivePositions(ss) = {} THEN -1
    ELSE (CHOOSE k \in DirectivePositions(ss) : \A j \in DirectivePositions(ss) : k <= j) - 1

\* the 0-based position of the module-level directive of a module body
ModuleDirectiveAt(items) == DirectiveAt([k \in 1..Len(items) |-> ItemStmt(items[k])])

\* whether the parsed module carries the module-level directive
IsDirectiveFile == ModuleDirectiveAt(input) >= 0

\* the nodes directly below a node
Children(n) ==
    CASE n.type \in {"Member", "OptChain"} -> <<n.obj>>
      [] n.type = "MemberComputed" -> <<n.obj, n.index>>
      [] n.type \in {"Bin", "Assign", "PatAssign"} -> <<n.left, n.right>>
      [] n.type = "Call" -> <<n.callee>> \o n.args
      [] n.type \in {"Array", "PatArray"} -> n.elems
      [] n.type = "Object" -> n.props
      [] n.type = "KeyValue" -> <<n.value>>
      [] n.type = "PatRest" -> <<n.arg>>
      [] n.type = "Param" -> <<n.pat>>
      [] n.type \in {"Function", "Arrow"} -> n.params \o <<n.body>>
      [] n.type \in {"Fn", "FnDecl"} -> <<n.function>>
      [] n.type = "BlockStmt" -> n.stmts
      [] n.type = "ExprStmt" -> <<n.expr>>
      [] n.type = "Return" -> <<n.arg>>
      [] n.type = "VarDecl" -> n.decls
      [] n.type = "VarDeclarator" -> <<n.name, n.init>>
      [] n.type = "Stmt" -> <<n.stmt>>
      [] n.type \in {"ExportDecl", "ExportDefaultDecl"} -> <<n.decl>>
      [] n.type = "ExportDefaultExpr" -> <<n.expr>>
      [] OTHER -> <<>>

RECURSIVE SubNodes(_)
\* a node and every node below it
SubNodes(n) == {n} \cup UNION {SubNodes(Children(n)[k]) : k \in 1..Len(Children(n))}

\* every node of a module body
NodesOf(items) == UNION {SubNodes(items[k]) : k \in 1..Len(items)}

\* the statement list of the body of a function-like node, <<>> for an arrow
\* whose body is an expression
BodyStmts(m) ==
    CASE m.type \in {"Fn", "FnDecl"} -> m.function.body.stmts
      [] m.type = "Arrow" /\ m.body.type = "BlockStmt" -> m.body.stmts
      [] OTHER -> <<>>

\* the function declarations, function expressions and arrows of a module body
FunctionLikes(items) == {m \in NodesOf(items) : m.type \in {"Fn", "FnDecl", "Arrow"}}

\* whether the body of a function-like node carries the directive
CarriesDirective(m) == DirectiveAt(BodyStmts(m)) >= 0

\* whether a diagnostic was emitted
HasError(span, msg) ==
    \E k \in 1..Len(self.errors) :
        self.errors[k].msg = msg /\ self.errors[k].span = span

\* whether the module as the transform leaves it has a top-level statement
\* that assigns to ident.field
Assigned(ident, field) ==
    \E k \in 1..Len(stmts) :
        /\ stmts[k].type = "Stmt"
        /\ stmts[k].stmt.type = "ExprStmt"
        /\ stmts[k].stmt.expr.type = "Assign"
        /\ stmts[k].stmt.expr.left = Member(ident, field)

RECURSIVE CommaJoined(_)
\* names joined by commas, without spaces
CommaJoined(names) ==
    IF names = <<>> THEN ""
    ELSE IF Len(names) = 1 THEN names[1]
    ELSE names[1] \o "," \o CommaJoined(Tail(names))

\* the text of a marker comment that lists names
Marker(names) == " __next_internal_action_entry_do_not_use__ " \o CommaJoined(names) \o " "

-----------------------------------------------------------------------------
(* C1 *)

\* no "use server" directive stands at module level or in any function body
NoDirectiveAnywhere ==
    /\ ~IsDirectiveFile
    /\ \A m \in FunctionLikes(input) : ~CarriesDirective(m)

\* C1: for a module without a module-level directive in which no function body
\* carries the directive, the transform leaves the module unchanged: no
\* annotation statement is emitted, no item is hoisted or appended, the
\* export-action list stays empty and no marker comment is attached.
C1_Unchanged ==
    (Done /\ NoDirectiveAnywhere) =>
        /\ stmts = input
        /\ \A k \in 1..Len(emitted) :
              emitted[k].annotations = <<>> /\ emitted[k].extra_items = <<>>
        /\ self.calls = <<>>
        /\ self.export_actions = <<>>
        /\ self.comments = <<>>

\* a module without any directive that exports an async function and holds a
\* second function went through the transform
C1_Witness ==
    /\ Done
    /\ NoDirectiveAnywhere
    /\ Len(input) = 2
    /\ \E k \in 1..Len(input) :
          /\ input[k].type = "ExportDecl"
          /\ input[k].decl.type = "FnDecl"
          /\ input[k].decl.function.is_async
    /\ Cardinality(FunctionLikes(input)) >= 2

-----------------------------------------------------------------------------
(* C2 *)

ExportItemTypes ==
    {"ExportDecl", "ExportNamed", "ExportDefaultDecl", "ExportDefaultExpr", "ExportAll"}

\* export async function f ...
IsExportedAsyncFnDecl(item) ==
    /\ item.type = "ExportDecl"
    /\ item.decl.type = "FnDecl"
    /\ item.decl.function.is_async

\* a directive file that exports something, and nothing but async function
\* declarations
OnlyAsyncFnDeclExports ==
    /\ IsDirectiveFile
    /\ \A k \in 1..Len(input) :
          input[k].type \in ExportItemTypes => IsExportedAsyncFnDecl(input[k])
    /\ \E k \in 1..Len(input) : IsExportedAsyncFnDecl(input[k])

\* the exported function declarations, in declaration order
ExportedFns ==
    [k \in 1..Len(SelectSeq(input, IsExportedAsyncFnDecl)) |->
        SelectSeq(input, IsExportedAsyncFnDecl)[k].decl]

\* their names
ExportedNames == [k \in 1..Len(ExportedFns) |-> Sym(ExportedFns[k].ident.id)]

\* every exported function is assigned $$typeof and $$id
ExportedFnsAnnotated ==
    \A k \in 1..Len(ExportedFns) :
        /\ Assigned(ExportedFns[k].ident, "$$typeof")
        /\ Assigned(ExportedFns[k].ident, "$$id")

\* the call of add_action_annotations is that of an exported function
IsExportedCall(c) ==
    \E k \in 1..Len(ExportedFns) :
        c.ident = ExportedFns[k].ident /\ c.export_name = ExportedNames[k]

\* the call of add_action_annotations is that of a function that is not
\* exported and whose own body carries the directive
IsOwnDirectiveCall(c) ==
    /\ c.export_name = "$ACTION_" \o Sym(c.ident.id)
    /\ \E m \in FunctionLikes(input) :
          m.type \in {"Fn", "FnDecl"} /\ m.ident = c.ident /\ CarriesDirective(m)

\* C2 as the specification states it: in a directive file whose exports are all
\* async function declarations, every exported function is assigned $$typeof
\* and $$id and the marker comment lists exactly the exported names,
\* comma-joined, in declaration order.
C2_Original ==
    (Done /\ OnlyAsyncFnDeclExports) =>
        /\ ExportedFnsAnnotated
        /\ Len(self.comments) = 1
        /\ self.comments[1].text = Marker(ExportedNames)

\* C2, amended: in a directive file whose exports are all async function
\* declarations, every exported function is assigned $$typeof and $$id; the
\* marker comment lists the actions in the order they were annotated,
\* comma-joined without spaces: the exported names appear in it in declaration
\* order, every other entry is $ACTION_<name> for a function that is not
\* exported and whose own body carries the directive, and when no function
\* body carries the directive the comment lists exactly the exported names.
C2_Amended ==
    (Done /\ OnlyAsyncFnDeclExports) =>
        /\ ExportedFnsAnnotated
        /\ Len(self.comments) = 1
        /\ self.comments[1].text =
              Marker([k \in 1..Len(self.calls) |-> self.calls[k].export_name])
        /\ [k \in 1..Len(SelectSeq(self.calls, IsExportedCall)) |->
               SelectSeq(self.calls, IsExportedCall)[k].export_name] = ExportedNames
        /\ \A k \in 1..Len(self.calls) :
              IsExportedCall(self.calls[k]) \/ IsOwnDirectiveCall(self.calls[k])
        /\ (\A m \in FunctionLikes(input) : ~CarriesDirective(m)) =>
              self.comments[1].text = Marker(ExportedNames)

\* a directive file with two exported async function declarations, one of
\* which holds a function with its own directive, went through the transform
C2_Witness ==
    /\ Done
    /\ OnlyAsyncFnDeclExports
    /\ Len(ExportedFns) = 2
    /\ \E k \in 1..Len(self.calls) : ~IsExportedCall(self.calls[k])

-----------------------------------------------------------------------------
(* C3 *)

\* the statements `ident.$$bound = [...]` of the module as the transform
\* leaves it, wherever they stand
BoundAssignments ==
    {m \in NodesOf(stmts) :
        /\ m.type = "ExprStmt"
        /\ m.expr.type = "Assign"
        /\ m.expr.left.type = "Member"
        /\ m.expr.left.prop = "$$bound"}

\* the names the body of the function called ident refers to
ReferencedBy(ident) ==
    UNION {SubNodes(m.function.body) :
              m \in {f \in FunctionLikes(input) :
                        f.type \in {"Fn", "FnDecl"} /\ f.ident = ident}}

\* C3: the $$bound list of every action is the ordered, deduplicated list of
\* the names its own body refers to: it holds no name twice and no name its
\* body does not refer to.
C3_BoundIsOwnDeduplicated ==
    Done =>
        \A m \in BoundAssignments :
            /\ \A j, k \in 1..Len(m.expr.right.elems) :
                  j # k => m.expr.right.elems[j] # m.expr.right.elems[k]
            /\ \A k \in 1..Len(m.expr.right.elems) :
                  m.expr.right.elems[k] \in ReferencedBy(m.expr.left.obj)

-----------------------------------------------------------------------------
(* C4 *)

\* the functions, function expressions and arrows that are not async and are
\* action candidates: the body carries the directive, or the directive file
\* exports the node itself
SyncCandidates ==
    {m \in FunctionLikes(input) : ~(IF m.type = "Arrow" THEN m.is_async
                                     ELSE m.function.is_async)
                                   /\ CarriesDirective(m)}
    \cup
    {input[k].decl : k \in {j \in 1..Len(input) :
                               /\ IsDirectiveFile
                               /\ input[j].type \in {"ExportDecl", "ExportDefaultDecl"}
                               /\ input[j].decl.type \in {"Fn", "FnDecl"}
                               /\ ~input[j].decl.function.is_async}}

\* a must-be-async diagnostic was emitted for the node (at its name, if any)
MustBeAsyncEmittedFor(m) ==
    \E k \in 1..Len(self.errors) :
        /\ self.errors[k].msg = MustBeAsync
        /\ (m.type \in {"Fn", "FnDecl"} /\ IsSome(m.ident)) => self.errors[k].span = m.ident

\* C4: every action candidate that is not async (function declaration, named
\* or anonymous function expression, arrow) causes a must-be-async diagnostic.
C4_SyncCandidateDiagnosed ==
    Done => \A m \in SyncCandidates : MustBeAsyncEmittedFor(m)

-----------------------------------------------------------------------------
(* C5 *)

\* the local named exports `export { h }` of the parsed module whose h is a
\* function declaration of the module scope that is not async, as pairs
\* <<position of the export, position of the declaration>>
SyncHelperExports ==
    {<<k, d>> \in (1..Len(input)) \X (1..Len(input)) :
        /\ input[k].type = "ExportNamed"
        /\ ~IsSome(input[k].src)
        /\ input[d].type = "Stmt"
        /\ input[d].stmt.type = "FnDecl"
        /\ ~input[d].stmt.function.is_async
        /\ \E j \in 1..Len(input[k].specifiers) :
              /\ input[k].specifiers[j].type = "NamedSpecifier"
              /\ input[k].specifiers[j].orig = input[d].stmt.ident}

\* C5: in a directive file, export { helper } with helper a synchronous
\* function produces the export-shape diagnostic, helper receives no $$typeof,
\* $$id or $$bound annotation and is not added to the export-action list.
C5_SyncHelperRejected ==
    (Done /\ IsDirectiveFile) =>
        \A e \in SyncHelperExports :
            /\ HasError(input[e[1]].span, OnlyAsyncExports)
            /\ \A m \in NodesOf(stmts) :
                  (m.type = "Assign" /\ m.left.type = "Member")
                      => m.left.obj # input[e[2]].stmt.ident
            /\ \A k \in 1..Len(self.export_actions) :
                  self.export_actions[k] \notin
                      {Sym(input[e[2]].stmt.ident.id),
                       "$ACTION_" \o Sym(input[e[2]].stmt.ident.id)}

\* a directive file with function helper() {} and export { helper } went
\* through the transform
C5_Witness == Done /\ IsDirectiveFile /\ SyncHelperExports # {}

-----------------------------------------------------------------------------
(* C6 *)

\* an exported variable initializer that is no function and no async arrow
IneligibleInit(init) ==
    /\ IsSome(init)
    /\ init.type # "Fn"
    /\ ~(init.type = "Arrow" /\ init.is_async)

\* an exported item that is not a function declaration or expression, an
\* async arrow, or an identifier of an async function
IneligibleExport(item) ==
    CASE item.type = "ExportDecl" ->
            IF item.decl.type = "VarDecl"
            THEN \E k \in 1..Len(item.decl.decls) : IneligibleInit(item.decl.decls[k].init)
            ELSE item.decl.type # "FnDecl"
      [] item.type = "ExportDefaultDecl" -> item.decl.type # "Fn"
      [] item.type = "ExportNamed" -> IsSome(item.src)
      [] item.type = "ExportAll" -> TRUE
      [] OTHER -> FALSE

\* C6: in a directive file every exported item that is not an eligible shape
\* is flagged with the export-shape diagnostic: an exported variable whose
\* initializer is an arrow that is not async, a default-exported class, a
\* re-export from another module and a wildcard re-export among them.
C6_IneligibleExportsFlagged ==
    (Done /\ IsDirectiveFile) =>
        \A k \in 1..Len(input) :
            IneligibleExport(input[k]) => HasError(input[k].span, OnlyAsyncExports)

-----------------------------------------------------------------------------
(* C7 *)

\* every marker comment attached lists the export-action names, comma-joined,
\* after the fixed text and before one space
MarkerTextIsList ==
    \A k \in 1..Len(self.comments) :
        self.comments[k] = [pos |-> self.start_pos, kind |-> "Block",
                            text |-> Marker(self.export_actions)]

\* C7 as the specification states it: once the module is processed a marker
\* comment is attached if and only if the export-action list is not empty,
\* a directive file without any action included; at most once; its text is
\* the fixed text, the export-action names joined by commas, and one space.
C7_Original ==
    Done =>
        /\ Len(self.comments) <= 1
        /\ (self.comments # <<>>) <=> (self.export_actions # <<>>)
        /\ MarkerTextIsList

\* C7, amended: once the module is processed a marker comment is attached if
\* and only if the module carries the module-level directive or at least one
\* action was annotated in it, and at most once; its text is the fixed text,
\* the export-action names joined by commas, and one space.  A directive file
\* without any action gets the comment with an empty list.  Before the module
\* is processed no comment is attached.
C7_Amended ==
    /\ Done =>
          /\ Len(self.comments) <= 1
          /\ (self.comments # <<>>) <=> (IsDirectiveFile \/ self.calls # <<>>)
          /\ Len(self.export_actions) = Len(self.calls)
          /\ MarkerTextIsList
    /\ (pc \in {"begin", "prepass", "main"}) => self.comments = <<>>

\* a directive file in which no action was annotated went through the
\* transform and got the marker comment
C7_Witness ==
    /\ Done
    /\ IsDirectiveFile
    /\ Len(input) > 1
    /\ self.calls = <<>>
    /\ Len(self.comments) = 1

-----------------------------------------------------------------------------
(* C8 *)

\* the value assigned to ident.$$id by the statement st, None if st assigns
\* nothing to it
IdAssignedBy(st, ident) ==
    IF /\ st.type = "ExprStmt"
       /\ st.expr.type = "Assign"
       /\ st.expr.left = Member(ident, "$$id")
    THEN st.expr.right
    ELSE None

\* C8: the $$id of an action is the digest of the file identity, one colon and
\* the export name ('default' for a default export), and of nothing else: two
\* actions with the same file identity and export name have the same $$id
\* whatever items, actions or traversal state surround them.
C8_IdOfFileAndExportName ==
    \A k \in 1..Len(self.calls) :
        /\ self.calls[k].is_default_export => self.calls[k].export_name = "default"
        /\ \E j \in 1..Len(self.calls[k].annotations) :
              IdAssignedBy(self.calls[k].annotations[j], self.calls[k].ident)
                  = Str(hex_encode_sha1(self.file_name \o ":" \o self.calls[k].export_name))
        /\ \A j \in 1..Len(self.calls[k].annotations) :
              IsSome(IdAssignedBy(self.calls[k].annotations[j], self.calls[k].ident))
                  => IdAssignedBy(self.calls[k].annotations[j], self.calls[k].ident)
                        = Str(hex_encode_sha1(self.file_name \o ":"
                                              \o self.calls[k].export_name))

\* two actions were annotated, the second a default export, after other items
\* and with a traversal state that differs from the first's
C8_Witness ==
    /\ Done
    /\ Len(self.calls) = 2
    /\ self.calls[2].is_default_export
    /\ ~self.calls[1].is_default_export
    /\ self.calls[1].top_level # self.calls[2].top_level

-----------------------------------------------------------------------------
(* C9 *)

\* the module body the loops run on: the parsed body without its directive
Source == IF IsDirectiveFile THEN Remove(input, ModuleDirectiveAt(input)) ELSE input

\* the function declaration or function expression a module item consists
\* of, None for any other item
TopFn(item) ==
    CASE item.type = "Stmt" /\ item.stmt.type = "FnDecl" -> item.stmt
      [] item.type = "ExportDecl" /\ item.decl.type = "FnDecl" -> item.decl
      [] item.type = "ExportDefaultDecl" /\ item.decl.type = "Fn" -> item.decl
      [] OTHER -> None

\* the parsed module exports the identifier by `export { f }` or
\* `export default f`
NamedInExport(ident) ==
    /\ IsSome(ident)
    /\ \E k \in 1..Len(input) :
          \/ /\ input[k].type = "ExportNamed"
             /\ ~IsSome(input[k].src)
             /\ \E j \in 1..Len(input[k].specifiers) :
                   /\ input[k].specifiers[j].type = "NamedSpecifier"
                   /\ input[k].specifiers[j].orig = ident
          \/ input[k].type = "ExportDefaultExpr" /\ input[k].expr = ident

\* the top-level function of the item is exported
IsExportedTopFn(item) ==
    item.type \in {"ExportDecl", "ExportDefaultDecl"} \/ NamedInExport(TopFn(item).ident)

\* the item is an async function declaration or function expression that is
\* classified as an action: a named function whose body carries the
\* directive, or an exported function of a directive file
IsTopLevelAction(item) ==
    /\ IsSome(TopFn(item))
    /\ TopFn(item).function.is_async
    /\ \/ IsSome(TopFn(item).ident) /\ CarriesDirective(TopFn(item))
       \/ IsDirectiveFile /\ IsExportedTopFn(item)

\* export const $ACTION_<name> = <name>;
AliasOf(ident) ==
    ExportDecl(DUMMY_SP, VarDecl("const",
        <<VarDeclarator(PatIdent(Id("$ACTION_" \o Sym(ident.id), PrivateCtxt)), ident)>>))

\* the statements of the function's body, its own directive left out when the
\* directive is what made it an action
OwnBody(item) ==
    IF CarriesDirective(TopFn(item)) /\ ~(IsDirectiveFile /\ item.type # "Stmt")
    THEN Remove(BodyStmts(TopFn(item)), DirectiveAt(BodyStmts(TopFn(item))))
    ELSE BodyStmts(TopFn(item))

\* what the main loop pushed for a top-level action: e is the record of the
\* iteration, item the item as parsed
TopLevelActionEmitted(e, item) ==
    /\ IsSome(TopFn(e.stmt))
    /\ IsSome(TopFn(e.stmt).ident)
    /\ IsSome(TopFn(item).ident) => TopFn(e.stmt).ident = TopFn(item).ident
    \* $$typeof, $$id and an empty $$bound
    /\ Len(e.annotations) = 3
    /\ e.annotations[1] = annotate(TopFn(e.stmt).ident, "$$typeof", ServerReference)
    /\ IsSome(IdAssignedBy(e.annotations[2], TopFn(e.stmt).ident))
    /\ e.annotations[3] = annotate(TopFn(e.stmt).ident, "$$bound", ArrayLit(<<>>))
    \* not rewritten
    /\ TopFn(e.stmt).function.params = TopFn(item).function.params
    /\ TopFn(e.stmt).function.is_async
    /\ (\A m \in FunctionLikes(OwnBody(item)) : ~CarriesDirective(m))
          => BodyStmts(TopFn(e.stmt)) = OwnBody(item)
    \* not hoisted
    /\ \A k \in 1..Len(e.extra_items) :
          (e.extra_items[k].type = "ExportDecl" /\ e.extra_items[k].decl.type = "FnDecl")
              => Sym(e.extra_items[k].decl.ident.id) \notin
                    {Sym(TopFn(e.stmt).ident.id),
                     "$ACTION_" \o Sym(TopFn(e.stmt).ident.id)}
    \* the alias
    /\ (\E k \in 1..Len(e.extra_items) : e.extra_items[k] = AliasOf(TopFn(e.stmt).ident))
          <=> ~(IsDirectiveFile /\ IsExportedTopFn(item))

\* C9: an async function declaration or function expression classified as an
\* action while it is a top-level module item receives $$typeof, $$id and an
\* empty $$bound array, its body is not rewritten and it is not hoisted; the
\* alias export const $ACTION_<name> = <name> is appended exactly when the
\* action is not an exported action of a directive file.
C9_TopLevelActionInPlace ==
    \A k \in 1..Len(emitted) :
        IsTopLevelAction(Source[k]) => TopLevelActionEmitted(emitted[k], Source[k])

\* a directive file with a top-level action that is exported and one that is
\* not went through the transform
C9_Witness ==
    /\ Done
    /\ IsDirectiveFile
    /\ Len(emitted) = 2
    /\ IsTopLevelAction(Source[1]) /\ IsTopLevelAction(Source[2])
    /\ \E k \in 1..2 : IsExportedTopFn(Source[k])
    /\ \E k \in 1..2 : ~IsExportedTopFn(Source[k])

-----------------------------------------------------------------------------
(* C10 *)

\* the statement list a scan was applied to
Scanned ==
    IF pc = "scanned_module" THEN [k \in 1..Len(stmts) |-> ItemStmt(stmts[k])] ELSE stmts

\* C10 as the specification states it: the scan reports 'absent' at the first
\* statement that is not a bare string-literal expression statement or whose
\* literal is not exactly "use server", so that a directive is detected only
\* as the first statement.
C10_Original ==
    (pc \in {"scanned_fn", "scanned_module"}) =>
        i = IF Scanned # <<>> /\ IsUseServer(Scanned[1]) THEN 0 ELSE -1

\* C10, amended: the scan reports 'absent' at the first statement that is not
\* a bare string-literal expression statement; string literals other than
\* "use server" are passed over, so that "use strict"; "use server" is
\* detected; when a directive is detected the returned index is that of the
\* first "use server" literal, which only string literals precede.
C10_Amended ==
    (pc \in {"scanned_fn", "scanned_module"}) =>
        /\ i = DirectiveAt(Scanned)
        /\ i >= 0 => IsUseServer(Scanned[i + 1])
        /\ (\E k \in 1..Len(Scanned) :
               ~IsStrLit(Scanned[k]) /\ \A j \in 1..(k - 1) : ~IsUseServer(Scanned[j]))
              => i = -1

\* a scan found the directive behind another string literal
C10_Witness ==
    /\ pc \in {"scanned_fn", "scanned_module"}
    /\ i = 1
    /\ IsStrLit(Scanned[1]) /\ ~IsUseServer(Scanned[1])

-----------------------------------------------------------------------------
(* C11 *)

\* the whole transform of a module, as one value: the directive is removed,
\* the pre-pass and the main loop are run over the items; the result holds the
\* final struct, what each main-loop iteration emitted, and the marker text
ModuleRun(items, file_name) ==
    LET d == get_server_directive_index_in_module(items)
        found == d >= 0
        body == IF found THEN Remove(items, d) ELSE items
        s0 == [ServerActions(file_name) EXCEPT
                  !.start_pos = 1,
                  !.in_action_file = IF found THEN TRUE ELSE @,
                  !.has_action = IF found THEN TRUE ELSE @,
                  !.in_prepass = IF found THEN TRUE ELSE @]
        Pre[k \in 0..Len(body)] ==
            IF k = 0 THEN R(s0, body)
            ELSE LET prev == Pre[k - 1]
                     r == VisitModuleItem(
                             [prev.s EXCEPT !.exported_idents =
                                              @ \o PrepassExports(prev.n[k])],
                             prev.n[k])
                 IN  R(r.s, [prev.n EXCEPT ![k] = r.n])
        p == IF found
             THEN R([Pre[Len(body)].s EXCEPT !.in_prepass = FALSE], Pre[Len(body)].n)
             ELSE R(s0, body)
        Loop[k \in 0..Len(body)] ==
            IF k = 0 THEN [s |-> p.s, emitted |-> <<>>]
            ELSE LET prev == Loop[k - 1]
                     r == MainIteration([prev.s EXCEPT !.top_level = TRUE], p.n[k])
                 IN  [s |-> [r.s EXCEPT !.annotations = <<>>, !.extra_items = <<>>],
                      emitted |-> Append(prev.emitted,
                         [item |-> p.n[k], stmt |-> r.n,
                          annotations |-> r.s.annotations,
                          extra_items |-> r.s.extra_items,
                          errors |-> SubSeq(r.s.errors, Len(prev.s.errors) + 1,
                                            Len(r.s.errors)),
                          calls |-> SubSeq(r.s.calls, Len(prev.s.calls) + 1,
                                           Len(r.s.calls))])]
        last == Loop[Len(body)]
    IN  [s |-> last.s, emitted |-> last.emitted,
         text |-> MarkerText(last.s.export_actions)]

\* the number of specifiers or declarators of a top-level export of a
\* directive file that make the item offend (1 for an item that offends as a
\* whole)
OffendingParts(item) ==
    CASE item.type = "ExportDecl" /\ item.decl.type = "VarDecl" ->
            Cardinality({k \in 1..Len(item.decl.decls) :
                            InitDisallowed(item.decl.decls[k].init)})
      [] item.type = "ExportDecl" /\ item.decl.type = "FnDecl" -> 0
      [] item.type = "ExportNamed" /\ ~IsSome(item.src) ->
            Cardinality({k \in 1..Len(item.specifiers) :
                            SpecifierDisallowed(self, item.specifiers[k])})
      [] item.type = "ExportDefaultDecl" /\ item.decl.type = "Fn" -> 0
      [] item.type = "ExportDefaultExpr" ->
            IF DefaultExprDisallowed(self, item.expr) THEN 1 ELSE 0
      [] item.type \in ExportItemTypes -> 1
      [] OTHER -> 0

\* the number of export-shape diagnostics of one main-loop iteration
ExportShapeErrors(e) ==
    Cardinality({k \in 1..Len(e.errors) : e.errors[k].msg = OnlyAsyncExports})

\* an exported async function: export async function f ..., or
\* export default async function ...
IsValidExportedFn(item) ==
    \/ IsExportedAsyncFnDecl(item)
    \/ /\ item.type = "ExportDefaultDecl"
       /\ item.decl.type = "Fn"
       /\ item.decl.function.is_async

\* the position in the input of the k-th item that the loops run over
InputPos(k) ==
    IF IsDirectiveFile /\ k > ModuleDirectiveAt(input) THEN k + 1 ELSE k

\* what the k-th main-loop iteration left in the output
Output(e) == [stmt |-> e.stmt, annotations |-> e.annotations,
              extra_items |-> e.extra_items, errors |-> e.errors]

\* the pairs (b, g): an offending export at b, a valid exported async
\* function at g behind it
InvalidThenValid ==
    {bg \in (1..Len(emitted)) \X (1..Len(emitted)) :
        /\ bg[1] < bg[2]
        /\ OffendingParts(emitted[bg[1]].item) > 0
        /\ IsValidExportedFn(emitted[bg[2]].item)}

-----------------------------------------------------------------------------
(* C12 *)

\* the closure[i] expressions of a node
ClosureRefs(n) ==
    {m \in SubNodes(n) :
        m.type = "MemberComputed" /\ m.obj = Ident(self.closure_arg)}

\* C12: applying the capture rewriter to an action body is idempotent: a
\* reference replaced by closure[i] is never matched and rewritten again, so
\* rewriting a rewritten body with the same capture list changes nothing,
\* also when the capture list holds an identifier and a member chain on it.
C12_ReplacerIdempotent ==
    (pc = "replaced_again") =>
        /\ stmts = new
        /\ \A m \in ClosureRefs(new) : ClosureReplacer(self.closure_arg, self.used_ids, m) = m

\* a body whose references were replaced under a capture list that holds an
\* identifier and a member chain on it was rewritten a second time
C12_Witness ==
    /\ pc = "replaced_again"
    /\ new # input
    /\ ClosureRefs(new) # {}
    /\ \E j, k \in 1..Len(self.used_ids) :
          /\ self.used_ids[j].chain = <<>>
          /\ self.used_ids[k].chain # <<>>
          /\ self.used_ids[j].id = self.used_ids[k].id
          /\ index(self.used_ids, input.stmts[1].arg) = k - 1

-----------------------------------------------------------------------------
(* C13 *)

IsAsync(m) == IF m.type = "Arrow" THEN m.is_async ELSE m.function.is_async

\* the body of the function-like node starts with the directive
StartsWithDirective(m) == BodyStmts(m) # <<>> /\ IsUseServer(BodyStmts(m)[1])

\* the statements of the node that a call of add_action_annotations was given
CallBody(c) ==
    IF IsSome(c.arrow) THEN BodyStmts(c.arrow) ELSE c.function.body.stmts

\* the call of add_action_annotations c is for the node m of the parsed
\* module: m was classified as an action, the directive is gone from its
\* body, and $$typeof and $$id are assigned on its name
ClassifiedBy(c, m) ==
    /\ IF m.type = "Arrow"
       THEN IsSome(c.arrow) /\ c.arrow.span = m.span
       ELSE IsSome(c.function) /\ (IsSome(m.ident) => c.ident = m.ident)
    /\ CallBody(c) = Tail(BodyStmts(m))
    /\ \E j \in 1..Len(c.annotations) :
          c.annotations[j].expr.left = Member(c.ident, "$$typeof")
    /\ \E j \in 1..Len(c.annotations) :
          c.annotations[j].expr.left = Member(c.ident, "$$id")

\* the async function-like nodes of the parsed module whose body starts with
\* the directive
AsyncDirectiveFns ==
    {m \in FunctionLikes(input) : IsAsync(m) /\ StartsWithDirective(m)}

\* C13: outside a directive file, every async function-like node (function
\* declaration, named or anonymous function expression, arrow with a block
\* body) whose body starts with the directive is classified as an action: the
\* directive is removed from its body and the node receives $$typeof and $$id.
C13_AsyncDirectiveFnIsAction ==
    (Done /\ ~IsDirectiveFile) =>
        \A m \in AsyncDirectiveFns :
            \E k \in 1..Len(self.calls) : ClassifiedBy(self.calls[k], m)

-----------------------------------------------------------------------------
(* C14 *)

\* the named functions of the parsed module that stand inside a function or
\* an arrow
NestedFns ==
    UNION {{n \in SubNodes(m) \ {m} : n.type \in {"Fn", "FnDecl"} /\ IsSome(n.ident)} :
              m \in FunctionLikes(input)}

\* the calls of add_action_annotations that took the branch without captures
InPlaceCalls ==
    {k \in 1..Len(self.calls) : self.calls[k].branch = "in_place"}

\* C14: whenever an action is annotated through the no-capture branch (the
\* top-level flag is set: empty $$bound, body not rewritten, not hoisted), the
\* action is not nested inside any other function or arrow; the flag is false
\* during the traversal of everything inside a function-like node, the
\* expression body of an arrow and the default value of a parameter included.
C14_InPlaceOnlyAtTopLevel ==
    \A k \in InPlaceCalls :
        /\ self.calls[k].top_level
        /\ \A n \in NestedFns : n.ident # self.calls[k].ident

-----------------------------------------------------------------------------
(* C15 *)

\* the identifiers declared inside a node: its parameters and variable
\* declarations, and those of everything nested in it
DeclaredIn(n) == {k.id : k \in {j \in SubNodes(n) : j.type = "PatIdent"}}

\* C15: at every point of the traversal the closure-identifier set holds no
\* identifier declared inside an action (its parameters, its variable
\* declarations, and the parameters and variables of non-action functions
\* nested in that action), and no identifier declared in a directive file.
C15_ClosureIdentsOutsideActions ==
    IF IsDirectiveFile THEN self.closure_idents = <<>>
    ELSE \A m \in FunctionLikes(input) :
            CarriesDirective(m) =>
                \A id \in DeclaredIn(m) : ~Contains(self.closure_idents, id)

-----------------------------------------------------------------------------
(* C16 *)

\* the calls of add_action_annotations that hoisted a function
HoistedCalls ==
    {k \in 1..Len(self.calls) : self.calls[k].branch = "function"}

\* the Names of the $$bound annotation of a call, in order
BoundNames(c) ==
    LET elems == c.annotations[Len(c.annotations)].expr.right.elems
    IN  [k \in 1..Len(elems) |-> NameTryFrom(elems[k])]

\* the body of the function that a call hoisted
HoistedBody(c) == c.extra[1].decl.function.body

\* the expression is closure[i], for the parameter of a hoisted function
IsClosureRef(r) ==
    /\ r.type = "MemberComputed"
    /\ r.obj = Ident(Id("closure", PrivateCtxt))
    /\ r.index.type = "Num"

\* the element of the capture list that closure[i] reads
BoundAt(bound, r) ==
    IF r.index.value + 1 \in 1..Len(bound) THEN bound[r.index.value + 1] ELSE None

RECURSIVE RewrittenAgrees(_, _, _)
\* o is a node of an action's body, r the node at its place in the hoisted
\* body: wherever r differs from o, r is closure[i] and the Name of o is the
\* i-th element of the capture list
RewrittenAgrees(o, r, bound) ==
    CASE o = r -> TRUE
      [] o.type \in {"Ident", "Member", "OptChain"} /\ IsClosureRef(r) ->
            NameTryFrom(o) = BoundAt(bound, r)
      [] o.type = "Shorthand" ->
            /\ r.type = "KeyValue" /\ r.key = o.id
            /\ IsClosureRef(r.value)
            /\ Name(o.id, <<>>) = BoundAt(bound, r.value)
      [] OTHER ->
            /\ o.type = r.type
            /\ Len(Children(o)) = Len(Children(r))
            /\ Children(o) # <<>>
            /\ \A k \in 1..Len(Children(o)) :
                  RewrittenAgrees(Children(o)[k], Children(r)[k], bound)

\* the occurrences of identifiers of enclosing functions that stand in a node
\* as a bare-identifier expression or as a shorthand property
CapturedOccurrences(n) ==
    {m \in SubNodes(n) :
        m.type \in {"Ident", "Shorthand"} /\ Contains(self.closure_idents, m.id)}

\* C16: in a hoisted action, every reference rewritten to closure[i] (bare
\* identifier, member chain or shorthand property) is one whose original Name
\* is the i-th element of the action's $$bound annotation, and every
\* bare-identifier expression and every shorthand-property occurrence of a
\* captured identifier in the action body is rewritten.
C16_RewrittenAgreesWithBound ==
    \A k \in HoistedCalls :
        /\ RewrittenAgrees(self.calls[k].function.body, HoistedBody(self.calls[k]),
                           BoundNames(self.calls[k]))
        /\ CapturedOccurrences(HoistedBody(self.calls[k])) = {}

-----------------------------------------------------------------------------
(* C17 *)

\* the $$id that a call of add_action_annotations assigned
IdOfCall(c) == c.annotations[2].expr.right.value

\* C17: after a module is processed the export-action list holds no export
\* name twice, so no two distinct actions of the module receive the same $$id;
\* this includes two nested actions declared with the same name in different
\* enclosing functions, and the names synthesised for anonymous functions.
C17_ExportNamesDistinct ==
    Done =>
        /\ \A j, k \in 1..Len(self.export_actions) :
              j # k => self.export_actions[j] # self.export_actions[k]
        /\ \A j, k \in 1..Len(self.calls) :
              j # k => IdOfCall(self.calls[j]) # IdOfCall(self.calls[k])

-----------------------------------------------------------------------------
(* C18 *)

\* the variable declarators of a module item
VarDeclaratorsOf(item) == {d \in SubNodes(item) : d.type = "VarDeclarator"}

\* the number of records the pre-pass collects from the export statements
PrepassRecords ==
    Len(Flatten([k \in 1..Len(Source) |-> PrepassExports(Source[k])]))

\* C18 as the specification states it: the export record is written only
\* during the pre-pass; from the moment the pre-pass ends its contents stay
\* unchanged for the whole main pass.
C18_Original ==
    [][pc = "main" => self'.exported_idents = self.exported_idents]_vars

\* C18, amended: the pre-pass collects the records of the export statements;
\* the main pass never removes or changes a record, and appends one only in
\* visit_mut_var_decl: for a variable of a directive file that has a record and
\* is initialised with an async function expression, the name of the function
\* expression (the synthesised one if it had none) is appended with the
\* default flag of the variable's record.  Outside a directive file the
\* record stays empty.
C18_Amended ==
    [][pc = "main" =>
        /\ Len(self'.exported_idents) >= Len(self.exported_idents)
        /\ SubSeq(self'.exported_idents, 1, Len(self.exported_idents))
              = self.exported_idents
        /\ \A k \in (Len(self.exported_idents) + 1)..Len(self'.exported_idents) :
              \E d \in VarDeclaratorsOf(emitted'[Len(emitted')].stmt) :
                  /\ d.name.type = "PatIdent"
                  /\ d.init.type = "Fn" /\ d.init.function.is_async
                  /\ ExportedIdent(self, d.name.id) > 0
                  /\ self'.exported_idents[k] =
                        <<d.init.ident.id,
                          self.exported_idents[ExportedIdent(self, d.name.id)][2]>>
        /\ ~self.in_action_file => self'.exported_idents = <<>>]_vars

\* the main pass has appended a record to those of the pre-pass
C18_Witness ==
    Done /\ IsDirectiveFile /\ Len(self.exported_idents) > PrepassRecords

-----------------------------------------------------------------------------
(* C19 *)

\* the positions of the async function declarations of the module scope
AsyncFnDecls ==
    {k \in 1..Len(input) :
        /\ input[k].type = "Stmt"
        /\ input[k].stmt.type = "FnDecl"
        /\ input[k].stmt.function.is_async}

\* the item is `export { ... }` without source and names the identifier, or
\* is `export default <identifier>`
ExportsByName(item, ident) ==
    \/ /\ item.type = "ExportNamed"
       /\ ~IsSome(item.src)
       /\ \E j \in 1..Len(item.specifiers) :
             /\ item.specifiers[j].type = "NamedSpecifier"
             /\ item.specifiers[j].orig = ident
    \/ item.type = "ExportDefaultExpr" /\ item.expr = ident

\* the positions of the export statements that name the identifier
ExportStatementsOf(ident) ==
    {k \in 1..Len(input) : ExportsByName(input[k], ident)}

\* the default flag of the identifier's export record: that of the first
\* export statement that names it
DefaultFlagOf(ident) ==
    LET first == CHOOSE k \in ExportStatementsOf(ident) :
                    \A j \in ExportStatementsOf(ident) : k <= j
    IN  input[first].type = "ExportDefaultExpr"

\* every identifier the export statement names is an async function
\* declaration of the module scope
NamesOnlyAsyncFnDecls(item) ==
    IF item.type = "ExportDefaultExpr"
    THEN \E d \in AsyncFnDecls : input[d].stmt.ident = item.expr
    ELSE \A j \in 1..Len(item.specifiers) :
            /\ item.specifiers[j].type = "NamedSpecifier"
            /\ \E d \in AsyncFnDecls : input[d].stmt.ident = item.specifiers[j].orig

\* the call of add_action_annotations classifies the declaration as an
\* exported action under the name and default flag of its export record
ExportedActionCall(c, ident) ==
    /\ c.ident = ident
    /\ c.is_exported
    /\ c.is_default_export = DefaultFlagOf(ident)
    /\ c.export_name = IF DefaultFlagOf(ident) THEN "default" ELSE Sym(ident.id)

\* C19: in a directive file an async function declaration foo named by
\* `export { foo }` or `export default foo` is classified as an exported
\* action with the default flag of its export record, keeps its name as
\* export name ("default" for a default export), and raises no export-shape
\* diagnostic, whether the export statement stands before or after the
\* declaration.
C19_NamedExportOfAsyncFn ==
    (Done /\ IsDirectiveFile) =>
        \A d \in AsyncFnDecls :
            ExportStatementsOf(input[d].stmt.ident) # {} =>
                /\ \E k \in 1..Len(self.calls) :
                      ExportedActionCall(self.calls[k], input[d].stmt.ident)
                /\ Assigned(input[d].stmt.ident, "$$id")
                /\ \A e \in ExportStatementsOf(input[d].stmt.ident) :
                      NamesOnlyAsyncFnDecls(input[e]) =>
                          ~HasError(input[e].span, OnlyAsyncExports)

\* a directive file was processed in which `export default foo` stands
\* before the declaration of the async function foo
C19_Witness ==
    /\ Done /\ IsDirectiveFile
    /\ \E d \in AsyncFnDecls :
          \E e \in ExportStatementsOf(input[d].stmt.ident) :
              e < d /\ input[e].type = "ExportDefaultExpr"

-----------------------------------------------------------------------------
(* C20 *)

RECURSIVE BlocksOf(_)
\* the statement lists of the blocks of a node, as a sequence
BlocksOf(n) ==
    (IF n.type = "BlockStmt" THEN <<n.stmts>> ELSE <<>>)
        \o Flatten([k \in 1..Len(Children(n)) |-> BlocksOf(Children(n)[k])])

\* the statement lists of the module as the transform leaves it: the module
\* body and every block
StmtLists ==
    <<[k \in 1..Len(stmts) |-> IF stmts[k].type = "Stmt" THEN stmts[k].stmt ELSE stmts[k]]>>
        \o Flatten([k \in 1..Len(stmts) |-> BlocksOf(stmts[k])])

\* the statement assigns to <ident>.<field> for one of the annotation fields
IsAnnotation(st) ==
    /\ st.type = "ExprStmt"
    /\ st.expr.type = "Assign"
    /\ st.expr.left.type = "Member"
    /\ st.expr.left.prop \in {"$$typeof", "$$id", "$$bound"}

RECURSIVE HoldsAction(_, _)
\* the node holds the action of the call, outside of any statement list below
\* the node
HoldsAction(n, c) ==
    \/ n.type \in {"Fn", "FnDecl"} /\ n.ident = c.ident
    \/ n.type = "Assign" /\ n.left = PatIdent(c.ident.id)
    \/ \E k \in 1..Len(Children(n)) :
          Children(n)[k].type # "BlockStmt" /\ HoldsAction(Children(n)[k], c)

\* the annotation statements of the call stand in the list L from position q
\* on, in the order $$typeof, $$id, $$bound
AnnotationsAt(L, q, c) ==
    /\ q + 2 <= Len(L)
    /\ \A j \in 0..2 : IsAnnotation(L[q + j])
    /\ L[q].expr.left = Member(c.ident, "$$typeof")
    /\ L[q + 1].expr.left = Member(c.ident, "$$id")
    /\ L[q + 2].expr.left = Member(c.ident, "$$bound")

\* the annotations of the call follow the statement that holds its action, in
\* the innermost statement list (one of lists), with nothing but annotations
\* in between
AnnotatedInPlace(c, lists) ==
    \E l \in 1..Len(lists) :
        \E p \in 1..Len(lists[l]) :
            /\ HoldsAction(lists[l][p], c)
            /\ \E q \in (p + 1)..Len(lists[l]) :
                  /\ AnnotationsAt(lists[l], q, c)
                  /\ \A r \in (p + 1)..(q - 1) : IsAnnotation(lists[l][r])

\* what one iteration of the main loop has put in the output: the item, its
\* annotations, then the items hoisted during its visit
OutputOf(e) ==
    <<e.stmt>> \o [k \in 1..Len(e.annotations) |-> StmtItem(e.annotations[k])]
               \o e.extra_items

\* C20: for every action, its annotation statements appear in the output
\* immediately after the statement that contains the action (the entry of the
\* innermost statement list, or the module item), in the order $$typeof, $$id,
\* $$bound; the items hoisted while a module item was visited appear after
\* all annotations emitted for that module item and before the next original
\* module item.
C20_AnnotationsFollowStatement ==
    Done =>
        /\ LET lists == StmtLists
           IN  \A k \in 1..Len(self.calls) : AnnotatedInPlace(self.calls[k], lists)
        /\ stmts = Flatten([k \in 1..Len(emitted) |-> OutputOf(emitted[k])])
        /\ \A k \in 1..Len(emitted) :
              /\ emitted[k].extra_items =
                    Flatten([j \in 1..Len(emitted[k].calls) |-> emitted[k].calls[j].extra])
              /\ \A j \in 1..Len(emitted[k].annotations) :
                    IsAnnotation(emitted[k].annotations[j])
              /\ \A j \in 1..Len(emitted[k].extra_items) :
                    emitted[k].extra_items[j].type \in {"ExportDecl", "Stmt"}
                    /\ emitted[k].extra_items[j] \notin
                          {input[n] : n \in 1..Len(input)}

\* a module was processed in which an action inside a function body was
\* hoisted, and annotated behind its statement in that body
C20_Witness ==
    /\ Done
    /\ \E k \in 1..Len(emitted) :
          /\ emitted[k].extra_items # <<>>
          /\ emitted[k].annotations = <<>>
          /\ emitted[k].calls # <<>>

-----------------------------------------------------------------------------
(* The visit of a module taken one call at a time.  stmts is the stack of   *)
(* the visitor's calls that have not returned, innermost last; self is the  *)
(* struct as the innermost call has it now; new holds the call that         *)
(* returned last; old_annotations holds the module items as the loops of    *)
(* visit_mut_module_items have them                                         *)

\* most items of a module that is walked call by call
MaxWalked == 1

\* a child that a method visits: the node and the call made on it
\*   how = "item" is stmt.visit_mut_with(self) for a module item
Kid(n, how) == [n |-> n, how |-> how]

\* the kids of a Vec child, in order
KidsIn(n, child, how) == [k \in 1..Len(n[child]) |-> Kid(n[child][k], how)]

\* visit_mut_fn_expr up to get_action_info: the anonymous async function of an
\* export of a directive file is given a name
FnExprNamed(s, f) ==
    IF NeedsDefaultName(s, f)
    THEN R([s EXCEPT !.action_index = @ + 1],
           [f EXCEPT !.ident =
               Ident(Id("$ACTION_default_" \o ToString(s.action_index), EmptyCtxt))])
    ELSE R(s, f)

\* f.visit_mut_children_with(self) of visit_mut_fn_expr and visit_mut_fn_decl:
\* the function, its body as get_action_info left it
FnKids(r) ==
    <<Kid([r.n.function EXCEPT
              !.body = get_action_info(r.s, r.n.ident, r.n.function.body).body],
          "children")>>

\* the struct as visit_mut_fn_expr and visit_mut_fn_decl set it for the children
FnSub(r) == EnterFn(r.s, get_action_info(r.s, r.n.ident, r.n.function.body).is_action_fn)

\* the children the derived traversal visits, in its order
DerivedKids(n) ==
    CASE n.type \in {"Member", "OptChain"} -> <<Kid(n.obj, "with")>>
      [] n.type = "MemberComputed" -> <<Kid(n.obj, "with"), Kid(n.index, "with")>>
      [] n.type \in {"Bin", "Assign", "PatAssign"} ->
            <<Kid(n.left, "with"), Kid(n.right, "with")>>
      [] n.type = "Call" -> <<Kid(n.callee, "with")>> \o KidsIn(n, "args", "with")
      [] n.type \in {"Array", "PatArray"} -> KidsIn(n, "elems", "with")
      [] n.type = "Object" -> KidsIn(n, "props", "with")
      [] n.type = "KeyValue" -> <<Kid(n.value, "with")>>
      [] n.type = "PatRest" -> <<Kid(n.arg, "with")>>
      [] n.type = "Param" -> <<Kid(n.pat, "with")>>
      [] n.type = "Function" -> KidsIn(n, "params", "with") \o <<Kid(n.body, "with")>>
      [] n.type = "ExprStmt" -> <<Kid(n.expr, "with")>>
      [] n.type = "Return" -> <<Kid(n.arg, "with")>>
      [] n.type = "VarDeclarator" -> <<Kid(n.name, "with"), Kid(n.init, "with")>>
      [] OTHER -> <<>>

\* the declarators visit_mut_var_decl visits, as its loop left them
VarDeclKids(s, n) ==
    [k \in 1..Len(n.decls) |->
        Kid((IF s.in_action_file THEN VarDeclLoop(s, n.decls).n ELSE n.decls)[k], "with")]

\* the calls that the call `how` on node n makes on the children of n, in
\* order, s being the struct the call began with
KidsOf(s, n, how) ==
    CASE how = "item" /\ n.type = "Stmt" -> <<Kid(n.stmt, "stmt")>>
      [] how = "item" /\ n.type = "ExportDecl" -> <<Kid(n.decl, "with")>>
      [] how = "item" /\ n.type = "ExportDefaultDecl" ->
            IF n.decl.type = "Fn" THEN <<Kid(n.decl, "children")>> ELSE <<>>
      [] how = "item" /\ n.type = "ExportDefaultExpr" -> <<Kid(n.expr, "with")>>
      [] how = "item" -> <<>>
      [] how = "stmt" ->
            <<Kid(n, IF n.type \in {"FnDecl", "VarDecl"} THEN "with" ELSE "children")>>
      [] how = "with" /\ n.type \in ExprTypes -> <<Kid(n, "children")>>
      [] how = "with" /\ n.type = "Param" -> <<Kid(n, "children")>>
      [] how = "with" /\ n.type = "FnDecl" ->
            IF s.in_action_file /\ s.in_prepass THEN <<>> ELSE FnKids(R(s, n))
      [] how = "with" /\ n.type = "VarDecl" -> VarDeclKids(s, n)
      [] how = "with" /\ n.type = "BlockStmt" -> KidsIn(n, "stmts", "stmt")
      [] how = "children" /\ n.type = "Fn" ->
            IF s.in_action_file /\ s.in_prepass THEN <<>>
            ELSE IF ~IsSome(n.ident) /\ ~NeedsDefaultName(s, n)
            THEN <<Kid(n.function, "with")>>
            ELSE FnKids(FnExprNamed(s, n))
      [] how = "children" /\ n.type = "Arrow" ->
            IF s.in_prepass THEN <<>>
            ELSE KidsIn(n, "params", "with") \o <<Kid(n.body, "with")>>
      [] OTHER -> DerivedKids(n)

\* the struct as the call `how` on node n sets it before it visits the first
\* child, s being the struct the call began with
SubState(s, n, how) ==
    CASE how = "item" /\ n.type = "ExportDecl" -> [s EXCEPT !.in_export_decl = TRUE]
      [] how = "item" /\ n.type \in {"ExportDefaultDecl", "ExportDefaultExpr"} ->
            [s EXCEPT !.in_export_decl = TRUE, !.in_default_export_decl = TRUE]
      [] how = "with" /\ n.type \in ExprTypes ->
            IF s.in_action_fn /\ s.should_add_name /\ IsSome(NameTryFrom(n))
            THEN [s EXCEPT !.should_add_name = FALSE,
                           !.action_idents =
                               IF ~s.in_prepass THEN Append(@, NameTryFrom(n)) ELSE @]
            ELSE s
      [] how = "with" /\ n.type = "FnDecl" ->
            IF s.in_action_file /\ s.in_prepass THEN s ELSE FnSub(R(s, n))
      [] how = "with" /\ n.type = "VarDecl" ->
            IF s.in_action_file THEN VarDeclLoop(s, n.decls).s ELSE s
      [] how = "with" /\ n.type = "BlockStmt" ->
            [s EXCEPT !.annotations = <<>>, !.top_level = FALSE]
      [] how = "children" /\ n.type = "Fn" ->
            IF s.in_action_file /\ s.in_prepass THEN s
            ELSE IF ~IsSome(n.ident) /\ ~NeedsDefaultName(s, n) THEN s
            ELSE FnSub(FnExprNamed(s, n))
      [] OTHER -> s

\* the struct as a call has it when it visits its next child, s being the
\* struct as the child before left it: visit_mut_stmts has moved the
\* annotations of the statement before to `new` and sets top_level
NextKid(f, s) ==
    IF f.how = "with" /\ f.n.type = "BlockStmt"
    THEN [s EXCEPT !.annotations = <<>>, !.top_level = FALSE]
    ELSE s

\* a call of the visitor that has begun: the struct s it began with, the node,
\* the method, the struct sub as the method set it for its children, and the
\* number k of children whose visit has returned
Frame(s, n, how) ==
    [s |-> s, n |-> n, how |-> how, sub |-> SubState(s, n, how), k |-> 0]

\* what the call `how` on node n does as a whole
VisitAs(s, n, how) == IF how = "item" THEN VisitModuleItem(s, n) ELSE Visit(s, n, how)

\* the modules that are walked
WalkedBodies ==
    {[p \in 1..Len(shapes) |-> Item(shapes[p], p)] :
        shapes \in {ss \in UNION {[1..n -> Shapes] : n \in 0..MaxWalked} : WellFormed(ss)}}

WalkInit ==
    /\ input \in {prologue \o body : prologue \in Prologues, body \in WalkedBodies}
    /\ old_annotations = input
    /\ stmts = <<>>
    /\ new = <<>>
    /\ self \in {ServerActions(f) : f \in FileNames}
    /\ pc = "walk_begin"
    /\ i = 1
    /\ emitted = <<>>

\* visit_mut_module_items up to the loops
WalkBegin ==
    /\ pc = "walk_begin"
    /\ LET directive_index == get_server_directive_index_in_module(old_annotations)
           found == directive_index >= 0
       IN  /\ old_annotations' =
                 IF found THEN Remove(old_annotations, directive_index)
                 ELSE old_annotations
           /\ self' = [self EXCEPT !.start_pos = 1,
                                   !.in_action_file = IF found THEN TRUE ELSE @,
                                   !.has_action = IF found THEN TRUE ELSE @,
                                   !.annotations = <<>>,
                                   !.in_prepass = IF found THEN TRUE ELSE @]
           /\ pc' = IF found THEN "walk_prepass" ELSE "walk_main"
    /\ UNCHANGED <<input, stmts, new, i, emitted>>

\* the pre-pass loop comes to an item: its exports are recorded and its visit
\* begins
WalkPrepassItem ==
    /\ pc = "walk_prepass"
    /\ stmts = <<>>
    /\ i <= Len(old_annotations)
    /\ \E f \in {Frame([self EXCEPT !.exported_idents =
                                       @ \o PrepassExports(old_annotations[i])],
                       old_annotations[i], "item")} :
          /\ stmts' = <<f>>
          /\ self' = f.sub
    /\ UNCHANGED <<input, new, old_annotations, pc, i, emitted>>

\* the pre-pass loop is over
WalkPrepassDone ==
    /\ pc = "walk_prepass"
    /\ stmts = <<>>
    /\ i > Len(old_annotations)
    /\ self' = [self EXCEPT !.in_prepass = FALSE]
    /\ pc' = "walk_main"
    /\ i' = 1
    /\ UNCHANGED <<input, stmts, new, old_annotations, emitted>>

\* the main loop comes to an item: top_level is set, the export check of a
\* directive file is made, and the visit of the item begins
WalkMainItem ==
    /\ pc = "walk_main"
    /\ stmts = <<>>
    /\ i <= Len(old_annotations)
    /\ \E c \in {IF self.in_action_file
                 THEN CheckExport([self EXCEPT !.top_level = TRUE], old_annotations[i])
                 ELSE R([self EXCEPT !.top_level = TRUE], old_annotations[i])} :
          \E f \in {Frame(c.s, c.n, "item")} :
              /\ stmts' = <<f>>
              /\ self' = f.sub
    /\ UNCHANGED <<input, new, old_annotations, pc, i, emitted>>

\* the innermost call visits its next child
WalkDescend ==
    /\ stmts # <<>>
    /\ \E top \in {stmts[Len(stmts)]} :
          /\ top.k < Len(KidsOf(top.s, top.n, top.how))
          /\ \E kid \in {KidsOf(top.s, top.n, top.how)[top.k + 1]} :
                \E f \in {Frame(NextKid(top, self), kid.n, kid.how)} :
                    /\ stmts' = Append(stmts, f)
                    /\ self' = f.sub
    /\ UNCHANGED <<input, new, old_annotations, pc, i, emitted>>

\* the innermost call, its children visited, returns to its caller; the call
\* on a module item returns to the loop, which goes on to the next item
WalkReturn ==
    /\ stmts # <<>>
    /\ \E top \in {stmts[Len(stmts)]} :
          /\ top.k = Len(KidsOf(top.s, top.n, top.how))
          /\ \E r \in {VisitAs(top.s, top.n, top.how)} :
                /\ new' = <<[s |-> top.s, n |-> top.n, how |-> top.how, out |-> r.s]>>
                /\ self' = IF Len(stmts) = 1 /\ pc = "walk_main"
                           THEN [r.s EXCEPT !.annotations = <<>>, !.extra_items = <<>>]
                           ELSE r.s
                /\ old_annotations' =
                      IF Len(stmts) = 1 /\ pc = "walk_prepass"
                      THEN [old_annotations EXCEPT ![i] = r.n]
                      ELSE old_annotations
    /\ stmts' = IF Len(stmts) = 1 THEN <<>>
                ELSE [SubSeq(stmts, 1, Len(stmts) - 1) EXCEPT ![Len(stmts) - 1].k = @ + 1]
    /\ i' = IF Len(stmts) = 1 THEN i + 1 ELSE i
    /\ UNCHANGED <<input, pc, emitted>>

\* the epilogue of visit_mut_module_items; the buffer that was taken at the
\* start, and is put back, is the empty one of the constructor
WalkFinish ==
    /\ pc = "walk_main"
    /\ stmts = <<>>
    /\ i > Len(old_annotations)
    /\ self' = [self EXCEPT
                  !.annotations = <<>>,
                  !.comments =
                      IF AttachesComment(self)
                      THEN Append(@, [pos |-> self.start_pos, kind |-> "Block",
                                      text |-> MarkerText(self.export_actions)])
                      ELSE @]
    /\ pc' = "walk_done"
    /\ UNCHANGED <<input, stmts, new, old_annotations, i, emitted>>

WalkNext ==
    WalkBegin \/ WalkPrepassItem \/ WalkPrepassDone \/ WalkMainItem
        \/ WalkDescend \/ WalkReturn \/ WalkFinish

WalkSpec == WalkInit /\ [][WalkNext]_vars

-----------------------------------------------------------------------------
(* C21 *)

\* the flags that visit_mut_fn_expr and visit_mut_fn_decl save
Flags(s) ==
    [in_action_fn |-> s.in_action_fn, in_module |-> s.in_module,
     should_add_name |-> s.should_add_name, in_export_decl |-> s.in_export_decl,
     in_default_export_decl |-> s.in_default_export_decl]

\* the call is visit_mut_fn_decl or visit_mut_fn_expr
IsFnVisit(c) ==
    \/ c.how = "with" /\ c.n.type = "FnDecl"
    \/ c.how = "children" /\ c.n.type = "Fn"

\* the call is one of the three methods of the export wrappers
IsExportVisit(c) ==
    c.how = "item" /\ c.n.type \in {"ExportDecl", "ExportDefaultDecl", "ExportDefaultExpr"}

\* the call is visit_mut_stmts
IsStmtsVisit(c) == c.how = "with" /\ c.n.type = "BlockStmt"

\* the main loop of visit_mut_module_items has been reached
InMainPass == pc \in {"walk_main", "walk_done"}

\* C21: when the visit of a function declaration, of a function expression or
\* of an export wrapper returns, in_action_fn, in_module, should_add_name,
\* in_export_decl and in_default_export_decl hold the values they had when the
\* visit began; when visit_mut_stmts returns, top_level and the annotation
\* buffer are as they were when it began; every child of a call is entered
\* with the flags that the call set for its children, whatever the children
\* before it did, and every module item with the flags of the constructor;
\* and in_prepass is false all through the main pass.
C21_FlagsRestored ==
    /\ \A j \in 1..Len(new) :
          /\ IsFnVisit(new[j]) \/ IsExportVisit(new[j]) =>
                Flags(new[j].out) = Flags(new[j].s)
          /\ IsStmtsVisit(new[j]) =>
                /\ new[j].out.top_level = new[j].s.top_level
                /\ new[j].out.annotations = new[j].s.annotations
    /\ \A d \in 1..Len(stmts) :
          /\ d = 1 => Flags(stmts[d].s) = Flags(ServerActions(self.file_name))
          /\ d > 1 =>
                /\ Flags(stmts[d].s) = Flags(stmts[d - 1].sub)
                /\ stmts[d].s.top_level = stmts[d - 1].sub.top_level
          /\ InMainPass => ~stmts[d].s.in_prepass /\ ~stmts[d].sub.in_prepass
    /\ InMainPass => ~self.in_prepass

\* in the main pass the visit of an action has returned, which had set other
\* flags for its children than it began with, inside a statement list that
\* was entered with top_level set, and a later child is being visited
C21_Witness ==
    /\ InMainPass
    /\ \E j \in 1..Len(new) :
          /\ IsFnVisit(new[j])
          /\ Flags(SubState(new[j].s, new[j].n, new[j].how)) # Flags(new[j].s)
          /\ Len(new[j].out.calls) > Len(new[j].s.calls)
    /\ \E d \in 1..Len(stmts) : IsStmtsVisit(stmts[d]) /\ stmts[d].s.top_level
    /\ \E d \in 2..Len(stmts) : stmts[d - 1].k > 0

====
